---------------------------- MODULE Spec2Model ----------------------------
(***************************************************************************)
(* A model of the ghorg clone-run engine.                                  *)
(*                                                                         *)
(* Part I  (SpecSync): one local clone, its origin, and the Git backend    *)
(*          operations used by SyncDefaultBranch, for the subprocess       *)
(*          backend (GitClient) and the library backend (goGitClient).     *)
(* Part II (SpecRun):  one engine run: configuration, the bounded worker   *)
(*          pool, path planning, prune-untouched and pruneRepos.           *)
(*                                                                         *)
(* Commits are numbered like a binary heap: commit 1 is the root commit,   *)
(* the parent of commit c > 1 is c \div 2, so 2 and 3 are two different    *)
(* children of 1 (diverging histories) and 1, 2, 4 is a linear history.    *)
(* No operation modelled here creates a merge commit, so every commit has  *)
(* at most one parent.  Histories are complete (GHORG_CLONE_DEPTH unset).  *)
(***************************************************************************)
EXTENDS Integers, Sequences, FiniteSets, TLC

\* ------------------------------------------------------------------ bounds
\* the commits that exist anywhere, 1..MaxCommit
MaxCommit == 4

\* the most repositories one run is given
MaxRepos == 2

\* the largest GHORG_CONCURRENCY a run is configured with
MaxConcurrency == 2

\* ------------------------------------------------- commits, refs, branches
\* the hash of a ref that does not exist (GetRefHash fails, beforeHash = "")
NoCommit == 0

\* the empty branch name: Repo.CloneBranch == "" and "no such symbolic ref"
NoBranch == ""

Commits == 1..MaxCommit

Branches == {"main", "dev"}

Backends == {"exec", "gogit"}

DirtyKinds == {"modified", "staged", "untracked"}

Parent(c) == c \div 2

RECURSIVE Ancestors(_)
\* the commits reachable from c, c included (git rev-list c)
Ancestors(c) == IF c = NoCommit THEN {} ELSE {c} \cup Ancestors(Parent(c))

\* object.Commit.IsAncestor: a is reachable from b (a = b included)
IsAncestor(a, b) == a \in Ancestors(b)

\* git rev-list --count <exclude>..<tip>
RevListCount(exclude, tip) == Cardinality(Ancestors(tip) \ Ancestors(exclude))

Children(c) == {d \in Commits : d # c /\ Parent(d) = c}

VARIABLES
    remote,     \* origin as the server holds it: its default branch and that branch's tip
    loc,        \* the local clone
    last,       \* the last backend call: its inputs, the clone before it, its result
    run         \* the engine run of Part II

vars == <<remote, loc, last, run>>


\* ---------------------------------------------------------- backend queries

\* GetRemoteURL(repo, "origin"): fails when no origin remote is configured
GetRemoteURL(l) == [ok |-> l.origin]

\* GetRemoteDefaultBranch: the local symbolic ref refs/remotes/origin/HEAD first,
\* then the remote's HEAD (git ls-remote --symref origin HEAD / Remote.List)
GetRemoteDefaultBranch(l, r, net) ==
    IF l.originHEAD # NoBranch
    THEN [ok |-> TRUE, val |-> l.originHEAD]
    ELSE IF l.origin /\ net /\ r.default # NoBranch
         THEN [ok |-> TRUE, val |-> r.default]
         ELSE [ok |-> FALSE, val |-> NoBranch]

\* GetCurrentBranch: HEAD names a branch with at least one commit
GetCurrentBranch(l) == [ok |-> TRUE, val |-> l.HEAD]

\* HasLocalChanges: git status --short / Worktree.Status is not empty
HasLocalChanges(l) == [ok |-> TRUE, val |-> l.dirty # {}]

\* GitClient.HasUnpushedCommits: git rev-list --count @{u}..HEAD
\* @{u} fails when the current branch has no upstream configured or the
\* remote-tracking ref it names does not exist
GitClient_HasUnpushedCommits(l) ==
    IF l.HEAD \in l.upstream /\ l.tracking[l.HEAD] # NoCommit
    THEN [ok |-> TRUE, val |-> RevListCount(l.tracking[l.HEAD], l.heads[l.HEAD]) > 0]
    ELSE [ok |-> FALSE, val |-> FALSE]

\* goGitClient.HasUnpushedCommits: upstream is refs/remotes/origin/<current>;
\* a missing ref is (false, nil); otherwise upstream.IsAncestor(head) && head != upstream
goGitClient_HasUnpushedCommits(l) ==
    LET head     == l.heads[l.HEAD]
        upstream == l.tracking[l.HEAD]
    IN  IF upstream = NoCommit
        THEN [ok |-> TRUE, val |-> FALSE]
        ELSE [ok |-> TRUE, val |-> IsAncestor(upstream, head) /\ head # upstream]

HasUnpushedCommits(backend, l) ==
    IF backend = "exec" THEN GitClient_HasUnpushedCommits(l)
                        ELSE goGitClient_HasUnpushedCommits(l)

\* GetRefHash(repo, "refs/heads/<b>"): the hash, or an error when the ref is missing
GetRefHash(l, b) ==
    IF b \in Branches /\ l.heads[b] # NoCommit
    THEN [ok |-> TRUE, val |-> l.heads[b]]
    ELSE [ok |-> FALSE, val |-> NoCommit]

\* ------------------------------------------------- backend state changes
\* each returns [ok, loc]: whether it returned nil, and the clone afterwards

\* a fetch that reports success and brings nothing
FetchCloneBranch_notFetching(l, r, net, cb) ==
    [ok |-> l.origin /\ net /\ cb # NoBranch /\ cb = r.default, loc |-> l]

\* FetchCloneBranch: git fetch origin <CloneBranch> /
\* Fetch with +refs/heads/<b>:refs/remotes/origin/<b>
FetchCloneBranch(l, r, net, cb) ==
    IF l.origin /\ net /\ cb # NoBranch /\ cb = r.default
    THEN [ok |-> TRUE, loc |-> [l EXCEPT !.tracking[cb] = r.tip]]
    ELSE [ok |-> FALSE, loc |-> l]

\* GitClient.MergeFastForward: git merge --ff-only origin/<CloneBranch>
\*   origin/<b> missing                     -> error
\*   origin/<b> reachable from HEAD         -> "Already up to date", exit 0
\*   HEAD reachable from origin/<b>         -> the branch and the tree move to origin/<b>
\*                                             (refused when a changed file is in the way)
\*   otherwise                              -> "Not possible to fast-forward", error
GitClient_MergeFastForward(l, cb, inTheWay) ==
    LET target == IF cb \in Branches THEN l.tracking[cb] ELSE NoCommit
        head   == l.heads[l.HEAD]
    IN  IF target = NoCommit THEN [ok |-> FALSE, loc |-> l]
        ELSE IF IsAncestor(target, head) THEN [ok |-> TRUE, loc |-> l]
        ELSE IF IsAncestor(head, target)
             THEN IF l.dirty # {} /\ inTheWay
                  THEN [ok |-> FALSE, loc |-> l]
                  ELSE [ok |-> TRUE,
                        loc |-> [l EXCEPT !.heads[l.HEAD] = target, !.tree = target]]
        ELSE [ok |-> FALSE, loc |-> l]

\* goGitClient.MergeFastForward: Worktree.Reset(HardReset) to the commit of
\* refs/remotes/origin/<CloneBranch>; untracked files survive a hard reset
goGitClient_MergeFastForward(l, cb) ==
    LET target == IF cb \in Branches THEN l.tracking[cb] ELSE NoCommit
    IN  IF target = NoCommit THEN [ok |-> FALSE, loc |-> l]
        ELSE [ok |-> TRUE,
              loc |-> [l EXCEPT !.heads[l.HEAD] = target, !.tree = target,
                                !.dirty = l.dirty \cap {"untracked"}]]

MergeFastForward(backend, l, cb, inTheWay) ==
    IF backend = "exec" THEN GitClient_MergeFastForward(l, cb, inTheWay)
                        ELSE goGitClient_MergeFastForward(l, cb)

\* a ref update that also checks the commit out, as a merge would
UpdateRef_movingWorktree(l, b, from) ==
    LET sha == IF from \in Branches THEN l.tracking[from] ELSE NoCommit
    IN  IF sha = NoCommit \/ b \notin Branches
        THEN [ok |-> FALSE, loc |-> l]
        ELSE [ok |-> TRUE, loc |-> [l EXCEPT !.heads[b] = sha, !.tree = sha]]

\* UpdateRef(repo, "refs/heads/<b>", "refs/remotes/origin/<from>"): resolve the
\* remote-tracking ref, then point the local branch at it
UpdateRef(l, b, from) ==
    LET sha == IF from \in Branches THEN l.tracking[from] ELSE NoCommit
    IN  IF sha = NoCommit \/ b \notin Branches
        THEN [ok |-> FALSE, loc |-> l]
        ELSE [ok |-> TRUE, loc |-> [l EXCEPT !.heads[b] = sha]]

\* ------------------------------------------------------- SyncDefaultBranch
\* The inputs of one call: in.enabled is GHORG_SYNC_DEFAULT_BRANCH == "true",
\* in.cloneBranch is repo.CloneBranch, in.net says whether origin answers,
\* in.inTheWay whether a locally changed file is touched by the incoming commits.
\* The result: [updated, err] as returned, loc the clone afterwards, did the
\* state-changing Git operations that were started, target the branch synced.

SyncResult(updated, err, l, did, target) ==
    [updated |-> updated, err |-> err, loc |-> l, did |-> did, target |-> target]

\* GitClient.SyncDefaultBranch, from the unpushed-commit check on
GitClient_SyncFrom(l, r, in, currentBranch, defaultBranch) ==
    LET unpushed == GitClient_HasUnpushedCommits(l)
        before   == GetRefHash(l, defaultBranch)
        beforeHash == IF before.ok THEN before.val ELSE NoCommit
        fetched  == FetchCloneBranch(l, r, in.net, defaultBranch)
        merged   == GitClient_MergeFastForward(fetched.loc, defaultBranch, in.inTheWay)
        moved    == UpdateRef(fetched.loc, defaultBranch, defaultBranch)
        stepped  == IF currentBranch = defaultBranch THEN merged ELSE moved
        how      == IF currentBranch = defaultBranch THEN "merge" ELSE "updateref"
        after    == GetRefHash(stepped.loc, defaultBranch)
    IN  IF currentBranch = defaultBranch /\ ~unpushed.ok
        THEN SyncResult(FALSE, FALSE, l, {}, defaultBranch)
        ELSE IF currentBranch = defaultBranch /\ unpushed.val
        THEN SyncResult(FALSE, FALSE, l, {}, defaultBranch)
        ELSE IF ~fetched.ok
        THEN SyncResult(FALSE, TRUE, fetched.loc, {"fetch"}, defaultBranch)
        ELSE IF ~stepped.ok
        THEN SyncResult(FALSE, TRUE, stepped.loc, {"fetch", how}, defaultBranch)
        ELSE IF ~after.ok
        THEN SyncResult(TRUE, FALSE, stepped.loc, {"fetch", how}, defaultBranch)
        ELSE SyncResult(beforeHash # after.val, FALSE, stepped.loc, {"fetch", how}, defaultBranch)

\* GitClient.SyncDefaultBranch (subprocess backend): enabled, origin, default
\* branch, current branch, dirty tree, then the sync proper
GitClient_SyncDefaultBranch(l, r, in) ==
    LET remoteDefault == GetRemoteDefaultBranch(l, r, in.net)
        defaultBranch == IF remoteDefault.ok THEN remoteDefault.val ELSE in.cloneBranch
        current       == GetCurrentBranch(l)
        changes       == HasLocalChanges(l)
    IN  IF ~in.enabled THEN SyncResult(FALSE, FALSE, l, {}, NoBranch)
        ELSE IF ~GetRemoteURL(l).ok THEN SyncResult(FALSE, FALSE, l, {}, NoBranch)
        ELSE IF ~remoteDefault.ok /\ in.cloneBranch = NoBranch
        THEN SyncResult(FALSE, TRUE, l, {}, NoBranch)
        ELSE IF ~current.ok THEN SyncResult(FALSE, TRUE, l, {}, defaultBranch)
        ELSE IF ~changes.ok THEN SyncResult(FALSE, TRUE, l, {}, defaultBranch)
        ELSE IF changes.val THEN SyncResult(FALSE, FALSE, l, {}, defaultBranch)
        ELSE GitClient_SyncFrom(l, r, in, current.val, defaultBranch)

\* goGitClient.SyncDefaultBranch, from the unpushed-commit check on
goGitClient_SyncFrom(l, r, in, currentBranch, defaultBranch) ==
    LET unpushed == goGitClient_HasUnpushedCommits(l)
        before   == GetRefHash(l, defaultBranch)
        beforeHash == IF before.ok THEN before.val ELSE NoCommit
        fetched  == FetchCloneBranch(l, r, in.net, defaultBranch)
        merged   == goGitClient_MergeFastForward(fetched.loc, defaultBranch)
        moved    == UpdateRef(fetched.loc, defaultBranch, defaultBranch)
        stepped  == IF currentBranch = defaultBranch THEN merged ELSE moved
        how      == IF currentBranch = defaultBranch THEN "reset" ELSE "updateref"
        after    == GetRefHash(stepped.loc, defaultBranch)
    IN  IF currentBranch = defaultBranch /\ ~unpushed.ok
        THEN SyncResult(FALSE, FALSE, l, {}, defaultBranch)
        ELSE IF currentBranch = defaultBranch /\ unpushed.val
        THEN SyncResult(FALSE, FALSE, l, {}, defaultBranch)
        ELSE IF ~fetched.ok
        THEN SyncResult(FALSE, TRUE, fetched.loc, {"fetch"}, defaultBranch)
        ELSE IF ~stepped.ok
        THEN SyncResult(FALSE, TRUE, stepped.loc, {"fetch", how}, defaultBranch)
        ELSE IF ~after.ok
        THEN SyncResult(TRUE, FALSE, stepped.loc, {"fetch", how}, defaultBranch)
        ELSE SyncResult(beforeHash # after.val, FALSE, stepped.loc, {"fetch", how}, defaultBranch)

\* goGitClient.SyncDefaultBranch (library backend): enabled, origin, dirty
\* tree, current branch, default branch, then the sync proper
goGitClient_SyncDefaultBranch(l, r, in) ==
    LET remoteDefault == GetRemoteDefaultBranch(l, r, in.net)
        defaultBranch == IF remoteDefault.ok THEN remoteDefault.val ELSE in.cloneBranch
        current       == GetCurrentBranch(l)
        changes       == HasLocalChanges(l)
    IN  IF ~in.enabled THEN SyncResult(FALSE, FALSE, l, {}, NoBranch)
        ELSE IF ~GetRemoteURL(l).ok THEN SyncResult(FALSE, FALSE, l, {}, NoBranch)
        ELSE IF ~changes.ok THEN SyncResult(FALSE, TRUE, l, {}, NoBranch)
        ELSE IF changes.val THEN SyncResult(FALSE, FALSE, l, {}, NoBranch)
        ELSE IF ~current.ok THEN SyncResult(FALSE, TRUE, l, {}, NoBranch)
        ELSE IF ~remoteDefault.ok /\ in.cloneBranch = NoBranch
        THEN SyncResult(FALSE, TRUE, l, {}, NoBranch)
        ELSE goGitClient_SyncFrom(l, r, in, current.val, defaultBranch)

SyncDefaultBranch(backend, l, r, in) ==
    IF backend = "exec" THEN GitClient_SyncDefaultBranch(l, r, in)
                        ELSE goGitClient_SyncDefaultBranch(l, r, in)

\* ------------------------------------------------------ Part I: SpecSync
\* A clone as "git clone" leaves it: the remote's default branch checked out
\* and tracked.  The library clone records no refs/remotes/origin/HEAD.
ClonedFrom(r, originHEAD) ==
    [origin     |-> TRUE,
     HEAD       |-> r.default,
     heads      |-> [b \in Branches |-> IF b = r.default THEN r.tip ELSE NoCommit],
     tracking   |-> [b \in Branches |-> IF b = r.default THEN r.tip ELSE NoCommit],
     originHEAD |-> originHEAD,
     upstream   |-> {r.default},
     tree       |-> r.tip,
     dirty      |-> {}]

\* A repository made by "git init" and a first commit, with or without
\* "git remote add origin": no remote-tracking ref, no upstream
InitialisedOn(b, origin) ==
    [origin     |-> origin,
     HEAD       |-> b,
     heads      |-> [x \in Branches |-> IF x = b THEN 1 ELSE NoCommit],
     tracking   |-> [x \in Branches |-> NoCommit],
     originHEAD |-> NoBranch,
     upstream   |-> {},
     tree       |-> 1,
     dirty      |-> {}]

\* SyncDefaultBranch merges only after HasLocalChanges returned false, so
\* only a direct MergeFastForward call can find a changed file in the way
SyncInputs ==
    [enabled : BOOLEAN, cloneBranch : Branches \cup {NoBranch},
     net : BOOLEAN, inTheWay : {FALSE}]

NoInput == [enabled |-> FALSE, cloneBranch |-> NoBranch, net |-> FALSE, inTheWay |-> FALSE]

Call(op, backend, in, pre, updated, err, did, target) ==
    [op |-> op, backend |-> backend, in |-> in, pre |-> pre,
     updated |-> updated, err |-> err, did |-> did, target |-> target]

NoCall(l) == Call("none", "exec", NoInput, l, FALSE, FALSE, {}, NoBranch)

RunIdle == [pc |-> "idle"]

InitSync ==
    /\ remote \in [default : Branches, tip : {1}, renamed : {FALSE}]
    /\ loc \in {ClonedFrom(remote, h) : h \in {remote.default, NoBranch}}
               \cup {InitialisedOn(b, o) : b \in Branches, o \in BOOLEAN}
    /\ last = NoCall(loc)
    /\ run = RunIdle

\* nothing else happens to the clone while a backend call is being looked at
Idle == last.op = "none"

\* the caller takes the result; the clone is as the call left it
Return ==
    /\ ~Idle
    /\ last' = NoCall(loc)
    /\ UNCHANGED <<remote, loc, run>>

\* somebody pushes a commit to the remote's default branch
RemotePush ==
    /\ Idle
    /\ \E c \in Children(remote.tip) : remote' = [remote EXCEPT !.tip = c]
    /\ last' = NoCall(loc)
    /\ UNCHANGED <<loc, run>>

\* the remote's default branch is renamed (once in a behaviour): its HEAD names
\* the other branch, and the old name is gone from the remote
RemoteRename ==
    /\ Idle
    /\ ~remote.renamed
    /\ \E b \in Branches \ {remote.default} : remote' = [remote EXCEPT !.default = b, !.renamed = TRUE]
    /\ last' = NoCall(loc)
    /\ UNCHANGED <<loc, run>>

\* the user commits on the checked-out branch
LocalCommit ==
    /\ Idle
    /\ \E c \in Children(loc.heads[loc.HEAD]) :
          loc' = [loc EXCEPT !.heads[loc.HEAD] = c, !.tree = c]
    /\ last' = NoCall(loc')
    /\ UNCHANGED <<remote, run>>

\* the user edits, stages or adds a file
LocalEdit ==
    /\ Idle
    /\ loc.dirty = {}
    /\ \E k \in DirtyKinds : loc' = [loc EXCEPT !.dirty = {k}]
    /\ last' = NoCall(loc')
    /\ UNCHANGED <<remote, run>>

\* git checkout <b>: an existing branch; or one created from origin/<b>, which
\* then tracks it; or (git checkout -b) one created at HEAD with no upstream
LocalCheckout ==
    /\ Idle
    /\ loc.dirty = {}
    /\ \E b \in Branches \ {loc.HEAD} :
          loc' = IF loc.heads[b] # NoCommit
                 THEN [loc EXCEPT !.HEAD = b, !.tree = loc.heads[b]]
                 ELSE IF loc.tracking[b] # NoCommit
                 THEN [loc EXCEPT !.HEAD = b, !.heads[b] = loc.tracking[b],
                                  !.tree = loc.tracking[b],
                                  !.upstream = loc.upstream \cup {b}]
                 ELSE [loc EXCEPT !.HEAD = b, !.heads[b] = loc.heads[loc.HEAD]]
    /\ last' = NoCall(loc')
    /\ UNCHANGED <<remote, run>>

\* Gitter.FetchCloneBranch(repo)
CallFetchCloneBranch ==
    /\ Idle
    /\ \E cb \in Branches, net \in BOOLEAN :
          LET res == FetchCloneBranch(loc, remote, net, cb)
          IN  /\ loc' = res.loc
              /\ last' = Call("fetch", "exec",
                              [NoInput EXCEPT !.cloneBranch = cb, !.net = net],
                              loc, FALSE, ~res.ok, {"fetch"}, cb)
    /\ UNCHANGED <<remote, run>>

\* Gitter.MergeFastForward(repo)
CallMergeFastForward ==
    /\ Idle
    /\ \E backend \in Backends, cb \in Branches, inTheWay \in BOOLEAN :
          LET res == MergeFastForward(backend, loc, cb, inTheWay)
          IN  /\ loc' = res.loc
              /\ last' = Call("merge", backend,
                              [NoInput EXCEPT !.cloneBranch = cb, !.inTheWay = inTheWay],
                              loc, FALSE, ~res.ok, {"merge"}, cb)
    /\ UNCHANGED <<remote, run>>

\* Gitter.SyncDefaultBranch(repo)
CallSyncDefaultBranch ==
    /\ Idle
    /\ \E backend \in Backends, in \in SyncInputs :
          LET res == SyncDefaultBranch(backend, loc, remote, in)
          IN  /\ loc' = res.loc
              /\ last' = Call("sync", backend, in, loc,
                              res.updated, res.err, res.did, res.target)
    /\ UNCHANGED <<remote, run>>

NextSync ==
    \/ Return
    \/ RemotePush
    \/ RemoteRename
    \/ LocalCommit
    \/ LocalEdit
    \/ LocalCheckout
    \/ CallFetchCloneBranch
    \/ CallMergeFastForward
    \/ CallSyncDefaultBranch

SpecSync == InitSync /\ [][NextSync]_vars

\* ------------------------------------------------ Part I: the claims
\* the last call was SyncDefaultBranch with sync enabled on a clone with an origin
Synced == last.op = "sync" /\ last.in.enabled /\ last.pre.origin

\* the same, and origin answered
SyncedOnline == Synced /\ last.in.net

\* the branch checked out before the call is the remote's default branch, and
\* the backend resolved the default branch to it
OnDefault ==
    /\ last.pre.HEAD = remote.default
    /\ last.target = remote.default

\* the checked-out branch tracks origin/<branch>, and the ref exists
HadUpstream ==
    /\ last.pre.HEAD \in last.pre.upstream
    /\ last.pre.tracking[last.pre.HEAD] # NoCommit

\* the checked-out branch held a commit that neither origin/<branch> nor the
\* branch on the server has
HadLocalOnlyCommit ==
    LET head == last.pre.heads[last.pre.HEAD]
    IN  /\ ~IsAncestor(head, last.pre.tracking[last.pre.HEAD])
        /\ ~IsAncestor(head, remote.tip)

\* no local branch, HEAD or working tree changed during the call
NothingMoved ==
    /\ loc.heads = last.pre.heads
    /\ loc.HEAD = last.pre.HEAD
    /\ loc.tree = last.pre.tree

\* C1: with sync enabled and a clean tree, on the default branch holding a
\* commit origin's copy lacks (ahead or diverged), SyncDefaultBranch of either
\* backend returns (false, nil) and leaves refs/heads/<default>, HEAD and the
\* working tree unchanged.  (Stated for a reachable origin.)
C1_UnpushedCommitsSkipSync ==
    (SyncedOnline /\ last.pre.dirty = {} /\ OnDefault /\ HadUpstream /\ HadLocalOnlyCommit)
        => (~last.updated /\ ~last.err /\ NothingMoved)

\* C2: MergeFastForward of either backend moves the current branch only when
\* its tip is an ancestor of origin/<CloneBranch>; when the branch is ahead of
\* or diverged from origin/<CloneBranch> the branch ref stays where it was,
\* and when it has diverged the call returns an error.
C2_MergeIsFastForwardOnly ==
    last.op = "merge" =>
        LET before == last.pre.heads[last.pre.HEAD]
            target == last.pre.tracking[last.target]
        IN  /\ loc.heads[loc.HEAD] # before => IsAncestor(before, target)
            /\ (target # NoCommit /\ ~IsAncestor(before, target))
                   => loc.heads = last.pre.heads
            /\ (target # NoCommit /\ ~IsAncestor(before, target)
                                  /\ ~IsAncestor(target, before))
                   => last.err

\* C3: with sync enabled and an origin configured, a working tree with
\* uncommitted changes makes SyncDefaultBranch of either backend return
\* (false, nil) and move no ref, whatever branch is checked out and whether or
\* not the remote default branch can be determined.
C3_DirtyTreeSkipsSync ==
    (Synced /\ last.pre.dirty # {})
        => (~last.updated /\ ~last.err /\ NothingMoved
            /\ loc.tracking = last.pre.tracking)

\* C4: with sync enabled and a clean tree, on the default branch with no
\* upstream (no remote-tracking ref), SyncDefaultBranch of either backend
\* returns (false, nil) and starts no fetch, merge, reset or ref update.
\* (Stated for a reachable origin.)
C4_NoUpstreamSkipsSync ==
    (SyncedOnline /\ last.pre.dirty = {} /\ last.pre.HEAD = last.target
       /\ last.pre.HEAD \notin last.pre.upstream
       /\ last.pre.tracking[last.pre.HEAD] = NoCommit)
        => (~last.updated /\ ~last.err /\ last.did = {} /\ loc = last.pre)

\* the checked-out default branch held nothing origin lacks, and the branch on
\* the server is K >= 0 commits ahead of it
RemoteAheadOrEqual ==
    LET head == last.pre.heads[last.pre.HEAD]
    IN  /\ IsAncestor(head, last.pre.tracking[last.pre.HEAD])
        /\ IsAncestor(head, remote.tip)

\* the number K of commits the server's default branch is ahead of the
\* branch that was checked out
CommitsAhead == RevListCount(last.pre.heads[last.pre.HEAD], remote.tip)

\* C16: with sync enabled, a clean clone on the default branch with no
\* unpushed commits and the remote default branch K >= 0 commits ahead,
\* SyncDefaultBranch of either backend returns (K > 0, nil); afterwards the
\* local default ref equals the remote default ref and the working tree is
\* that commit's.  (Stated for a reachable origin.)
C16_SyncOnDefaultFastForwards ==
    (SyncedOnline /\ last.pre.dirty = {} /\ OnDefault /\ HadUpstream /\ RemoteAheadOrEqual)
        => /\ ~last.err
           /\ last.updated <=> CommitsAhead > 0
           /\ loc.heads[last.target] = remote.tip
           /\ loc.tracking[last.target] = remote.tip
           /\ loc.HEAD = last.pre.HEAD
           /\ loc.tree = remote.tip
           /\ loc.dirty = {}

\* a sync on the default branch that brought in two commits
C16_Witness ==
    /\ SyncedOnline /\ last.pre.dirty = {} /\ OnDefault /\ HadUpstream
    /\ RemoteAheadOrEqual
    /\ CommitsAhead = 2
    /\ last.updated
    /\ loc.tree = remote.tip

\* the call synced a default branch that origin has, from a clean clone
\* checked out on another branch
SyncedOffDefault ==
    /\ SyncedOnline /\ last.pre.dirty = {}
    /\ last.target = remote.default
    /\ last.pre.HEAD # last.target

\* C17: from a clean clone checked out on a branch other than the default,
\* SyncDefaultBranch moves refs/heads/<default> to the commit of
\* refs/remotes/origin/<default> and changes nothing else: HEAD, the other
\* branch refs and the working tree stay as they were.
C17_SyncOffDefaultMovesOnlyDefaultRef ==
    SyncedOffDefault
        => /\ ~last.err
           /\ loc.heads[last.target] = loc.tracking[last.target]
           /\ loc.heads[last.target] = remote.tip
           /\ \A b \in Branches \ {last.target} : loc.heads[b] = last.pre.heads[b]
           /\ loc.HEAD = last.pre.HEAD
           /\ loc.tree = last.pre.tree
           /\ loc.dirty = last.pre.dirty
           /\ loc.upstream = last.pre.upstream

\* a sync from a feature branch that moved the default ref away from the
\* commit that is checked out
C17_Witness ==
    /\ SyncedOffDefault
    /\ last.updated
    /\ last.pre.heads[last.target] # NoCommit
    /\ loc.heads[last.target] # last.pre.heads[last.target]
    /\ loc.tree # loc.heads[last.target]

\* C18: with sync enabled, a clean clone and a reachable origin,
\* SyncDefaultBranch targets the branch the remote's HEAD names now, whatever
\* Repo.CloneBranch says, and a fetch it starts brings that branch up to date.
C18_SyncTargetsRemoteDefault ==
    (SyncedOnline /\ last.pre.dirty = {})
        => /\ last.target = remote.default
           /\ "fetch" \in last.did => /\ ~last.err
                                      /\ loc.tracking[remote.default] = remote.tip

\* what the other backend's SyncDefaultBranch does from the same clone, with
\* the same remote and the same configuration
OtherBackend ==
    SyncDefaultBranch(CHOOSE b \in Backends : b # last.backend,
                      last.pre, remote, last.in)

\* C19: from every starting state of the clone and with the same
\* configuration, SyncDefaultBranch of the library backend and of the
\* subprocess backend return the same wasUpdated and the same error/no-error
\* outcome and leave the same branch refs and working tree.
C19_BackendsAgree ==
    last.op = "sync"
        => /\ OtherBackend.updated = last.updated
           /\ OtherBackend.err = last.err
           /\ OtherBackend.loc.heads = loc.heads
           /\ OtherBackend.loc.HEAD = loc.HEAD
           /\ OtherBackend.loc.tree = loc.tree
           /\ OtherBackend.loc.dirty = loc.dirty

strings_HasPrefix(s, prefix) ==
    Len(prefix) <= Len(s) /\ SubSeq(s, 1, Len(prefix)) = prefix

\* strings.TrimPrefix
strings_TrimPrefix(s, prefix) ==
    IF strings_HasPrefix(s, prefix) THEN SubSeq(s, Len(prefix) + 1, Len(s)) ELSE s

\* strings.ReplaceAll for a one-character old and new
strings_ReplaceAll(s, old, new) ==
    [i \in 1..Len(s) |-> IF s[i] = old THEN new ELSE s[i]]

RECURSIVE strings_Split(_, _)
\* strings.Split for a one-character separator: Split("", "/") is [""]
strings_Split(s, sep) ==
    IF \A i \in 1..Len(s) : s[i] # sep
    THEN <<s>>
    ELSE LET k == CHOOSE i \in 1..Len(s) :
                      s[i] = sep /\ \A j \in 1..(i - 1) : s[j] # sep
         IN  <<SubSeq(s, 1, k - 1)>> \o strings_Split(SubSeq(s, k + 1, Len(s)), sep)

RECURSIVE strings_Join(_, _)
\* strings.Join for a one-character separator
strings_Join(elems, sep) ==
    IF elems = <<>> THEN <<>>
    ELSE IF Len(elems) = 1 THEN elems[1]
    ELSE elems[1] \o <<sep>> \o strings_Join(Tail(elems), sep)

\* the path elements filepath.Clean keeps before it resolves "..": not "" and not "."
IsPathElement(c) == c # <<>> /\ c # <<".">>

RECURSIVE CleanElements(_, _, _)
\* filepath.Clean's pass over the elements: ".." removes the element before it,
\* is dropped at the root, and is kept at the start of a relative path
CleanElements(elems, out, rooted) ==
    IF elems = <<>> THEN out
    ELSE LET c == Head(elems)
         IN  IF c # <<".", ".">>
             THEN CleanElements(Tail(elems), Append(out, c), rooted)
             ELSE IF out # <<>> /\ out[Len(out)] # <<".", ".">>
             THEN CleanElements(Tail(elems), SubSeq(out, 1, Len(out) - 1), rooted)
             ELSE IF rooted
             THEN CleanElements(Tail(elems), out, rooted)
             ELSE CleanElements(Tail(elems), Append(out, c), rooted)

\* the elements of the cleaned path
PathElements(path) ==
    CleanElements(SelectSeq(strings_Split(path, "/"), IsPathElement), <<>>,
                  path # <<>> /\ path[1] = "/")

\* filepath.IsAbs
filepath_IsAbs(path) == path # <<>> /\ path[1] = "/"

\* filepath.Clean
filepath_Clean(path) ==
    LET body == strings_Join(PathElements(path), "/")
    IN  IF filepath_IsAbs(path) THEN <<"/">> \o body
        ELSE IF body = <<>> THEN <<".">> ELSE body

\* filepath.Join of two elements: empty elements are ignored, the result is
\* cleaned, and the join of nothing is ""
filepath_Join(a, b) ==
    IF a = <<>> /\ b = <<>> THEN <<>>
    ELSE IF a = <<>> THEN filepath_Clean(b)
    ELSE IF b = <<>> THEN filepath_Clean(a)
    ELSE filepath_Clean(a \o <<"/">> \o b)

\* filepath.Rel(base, target) for a target that filepath.WalkDir(base) visits:
\* the elements of target below base
filepath_Rel(base, target) ==
    LET b == PathElements(base)
        t == PathElements(target)
    IN  IF Len(t) = Len(b) THEN <<".">>
        ELSE strings_Join(SubSeq(t, Len(b) + 1, Len(t)), "/")

\* the absolute path lies in the tree rooted at the absolute path dir (dir
\* itself included), by path elements
IsWithin(dir, path) ==
    LET d == PathElements(dir)
        p == PathElements(path)
    IN  /\ filepath_IsAbs(dir) /\ filepath_IsAbs(path)
        /\ Len(d) <= Len(p)
        /\ SubSeq(p, 1, Len(d)) = d

\* ------------------------------------------------ configuration (environment)
\* The value of an integer environment variable: not set (""), set to text
\* that is no integer, or set to the integer n.
Unset == [kind |-> "unset", n |-> 0]

NotANumber == [kind |-> "nan", n |-> 0]

IntValue(n) == [kind |-> "int", n |-> n]

\* the default of GHORG_CONCURRENCY that InitConfig sets when it is not configured
DefaultConcurrency == 25

\* limiter.DefaultLimit: NewConcurrencyLimiter(limit) uses it when limit <= 0
DefaultLimit == 100

\* strconv.Atoi(os.Getenv(v)): "" and text that is no integer are errors
strconv_Atoi(v) == [ok |-> v.kind = "int", n |-> IF v.kind = "int" THEN v.n ELSE 0]

\* parseIntEnv
parseIntEnv(v) == strconv_Atoi(v)

\* getCloneDelaySeconds: (delaySeconds, hasDelay)
getCloneDelaySeconds(env) ==
    LET parsed == parseIntEnv(env.GHORG_CLONE_DELAY_SECONDS)
    IN  IF ~parsed.ok \/ parsed.n <= 0
        THEN [delaySeconds |-> 0, hasDelay |-> FALSE]
        ELSE [delaySeconds |-> parsed.n, hasDelay |-> TRUE]

\* shouldAutoAdjustConcurrency: its third result, shouldAdjust
shouldAutoAdjustConcurrency(env) ==
    LET concurrency == parseIntEnv(env.GHORG_CONCURRENCY)
    IN  IF ~getCloneDelaySeconds(env).hasDelay THEN FALSE
        ELSE IF ~concurrency.ok \/ concurrency.n <= 1 THEN FALSE
        ELSE TRUE

\* limiter.NewConcurrencyLimiter(limit): the number of tickets
NewConcurrencyLimiter(limit) == IF limit <= 0 THEN DefaultLimit ELSE limit

\* ------------------------------------------------------- repositories, slugs
\* scm.Repo as the SCM client produced it
Repo(name, path, url, rootLevelSnippet) ==
    [Name |-> name, Path |-> path, URL |-> url,
     IsGitLabRootLevelSnippet |-> rootLevelSnippet]

\* getAppNameFromURL: the last "/" element of the URL without its last "." part
getAppNameFromURL(url) ==
    LET withGit == strings_Split(url, "/")
        appName == withGit[Len(withGit)]
        split   == strings_Split(appName, ".")
    IN  strings_Join(SubSeq(split, 1, Len(split) - 1), ".")

\* isPathSegmentSafe: no "/" and no filepath.Separator in the segment
isPathSegmentSafe(seg) == \A k \in 1..Len(seg) : seg[k] # "/"

\* the repoSlug CloneAllRepos computes before it submits the task
repoSlugOf(repo, env) ==
    IF env.GHORG_SCM_TYPE = "sourcehut" THEN repo.Name
    ELSE IF repo.IsGitLabRootLevelSnippet THEN repo.Name
    ELSE getAppNameFromURL(repo.URL)

\* the repoSlug the submitted closure hands to ProcessRepository
taskRepoSlug(repo, env) ==
    IF repo.Path # <<>> /\ env.GHORG_PRESERVE_DIRECTORY_STRUCTURE
    THEN repo.Path
    ELSE repoSlugOf(repo, env)

\* the Path Planner: HostPath is the clone root joined with the slug
HostPathOf(root, repoSlug) == filepath_Join(root, repoSlug)

\* sliceContainsNamedRepo: needle and every repo.Path without a leading "/"
\* and with "\" turned into "/"
NormalisePath(path) == strings_ReplaceAll(strings_TrimPrefix(path, <<"/">>), "\\", "/")

\* a comparison of the paths as they are
sliceContainsNamedRepo_exact(haystack, needle) ==
    \E k \in 1..Len(haystack) : haystack[k].Path = needle

sliceContainsNamedRepo(haystack, needle) ==
    \E k \in 1..Len(haystack) : NormalisePath(haystack[k].Path) = NormalisePath(needle)

\* the characters of the names and URLs below, in byte order
Alphabet == <<".", "/", "\\", "a", "b", "g", "h", "i", "o", "s", "t", "u", "x", "z">>

CharRank(c) == CHOOSE k \in 1..Len(Alphabet) : Alphabet[k] = c

RECURSIVE StringBefore(_, _)
\* p < q for two file names, as sort.Strings orders them
StringBefore(p, q) ==
    IF p = <<>> THEN q # <<>>
    ELSE IF q = <<>> THEN FALSE
    ELSE IF p[1] # q[1] THEN CharRank(p[1]) < CharRank(q[1])
    ELSE StringBefore(Tail(p), Tail(q))

RECURSIVE ElementsBefore(_, _)
\* filepath.WalkDir visits the entries of a directory in the order of their
\* names, and a directory before what is in it
ElementsBefore(p, q) ==
    IF p = <<>> THEN q # <<>>
    ELSE IF q = <<>> THEN FALSE
    ELSE IF p[1] # q[1] THEN StringBefore(p[1], q[1])
    ELSE ElementsBefore(Tail(p), Tail(q))

WalkedBefore(p, q) == ElementsBefore(PathElements(p), PathElements(q))

RECURSIVE WalkOrder(_)
WalkOrder(paths) ==
    IF paths = {} THEN <<>>
    ELSE LET first == CHOOSE p \in paths : \A q \in paths \ {p} : WalkedBefore(p, q)
         IN  <<first>> \o WalkOrder(paths \ {first})

\* getRelativePathRepositories(root): every directory strictly below root that
\* is a Git clone, relative to root, in the order WalkDir visits them
getRelativePathRepositories(root, disk) ==
    LET found == {p \in disk : IsWithin(root, p) /\ PathElements(p) # PathElements(root)}
    IN  WalkOrder({filepath_Rel(root, p) : p \in found})

\* os.RemoveAll(path): the directory and everything below it are gone
os_RemoveAll(disk, path) == {p \in disk : ~IsWithin(path, p)}

\* ------------------------------------------------------ Part II: SpecRun
\* One engine run.  run.pc is where the engine goroutine stands:
\*   "Run"            CloneCommand.Run, before the concurrency adjustment
\*   "CloneAllRepos"  entering CloneAllRepos
\*   "dispatch"       the loop over cloneTargets and limit.WaitAndClose
\*   "untouched"      the prune-untouched block
\*   "pruneRepos"     entering pruneRepos;  "prune" its loop over the candidates
\*   "done", "fatal"  the run returned, or log.Fatal / PrintErrorAndExit ended it

\* GHORG_ABSOLUTE_PATH_TO_CLONE_TO and outputDirName of the runs modelled
AbsolutePathToCloneTo == <<"/", "h", "/">>

outputDirName == <<"o">>

\* setOuputDirAbsolutePath
outputDirAbsolutePath == filepath_Join(AbsolutePathToCloneTo, outputDirName)

\* what the SCM client may hand over: a namespaced project, a project whose
\* Path starts with "/", a project whose Path climbs out of its namespace,
\* and a root-level snippet titled "s/t"
RepoPool ==
    << Repo(<<"a">>, <<"g", "/", "a">>, <<"u", "/", "g", "/", "a", ".", "g", "i", "t">>, FALSE),
       Repo(<<"b">>, <<"/", "b">>, <<"u", "/", "b", ".", "g", "i", "t">>, FALSE),
       Repo(<<"x">>, <<".", ".", "/", "x">>, <<"u", "/", "x", ".", "g", "i", "t">>, FALSE),
       Repo(<<"s", "/", "t">>, <<>>, <<"u", "/", "s">>, TRUE) >>

\* the Git clones found on disk when the run starts
InitialDisks ==
    { {},
      {filepath_Join(outputDirAbsolutePath, <<"b">>),
       filepath_Join(outputDirAbsolutePath, <<"z">>)},
      {filepath_Join(outputDirAbsolutePath, <<"g", "/", "a">>),
       <<"/", "h", "/", "x">>} }

\* the members of RepoPool at the positions picked, in RepoPool's order
RECURSIVE Picked(_, _)
Picked(picks, from) ==
    IF from > Len(RepoPool) THEN <<>>
    ELSE (IF from \in picks THEN <<RepoPool[from]>> ELSE <<>>) \o Picked(picks, from + 1)

CloneTargetLists ==
    {Picked(picks, 1) : picks \in {ps \in SUBSET (1..Len(RepoPool)) :
                                       Cardinality(ps) \in 1..MaxRepos}}

\* GHORG_TARGET_REPOS_PATH: not set, or a file whose lines are these names
NoTargetReposFile == <<>>

TargetReposFile == << <<"a">>, <<"b">>, <<"x">>, <<"z">> >>

\* the defaults InitConfig gives the two exit codes
DefaultExitCodeOnCloneInfos == 0

DefaultExitCodeOnCloneIssues == 1

\* GHORG_PRUNE_NO_CONFIRM is read by pruneRepos only, so it is varied only
\* together with GHORG_PRUNE.  GHORG_TARGET_REPOS_PATH and
\* GHORG_EXIT_CODE_ON_CLONE_INFOS start at their defaults here and are given
\* their configured value by the one step that reads them.
Environments ==
    {e \in [GHORG_CONCURRENCY : {Unset, NotANumber} \cup {IntValue(n) : n \in 0..MaxConcurrency},
            GHORG_CLONE_DELAY_SECONDS : {Unset, IntValue(0), IntValue(1)},
            GHORG_CONCURRENCY_AUTO_ADJUSTED : {FALSE},
            GHORG_PRESERVE_DIRECTORY_STRUCTURE : BOOLEAN,
            GHORG_SCM_TYPE : {"gitlab"},
            GHORG_PRUNE : BOOLEAN,
            GHORG_PRUNE_NO_CONFIRM : BOOLEAN,
            GHORG_PRUNE_UNTOUCHED : BOOLEAN,
            GHORG_TARGET_REPOS_PATH : {NoTargetReposFile},
            GHORG_SYNC_DEFAULT_BRANCH : {TRUE},
            GHORG_EXIT_CODE_ON_CLONE_INFOS : {IntValue(DefaultExitCodeOnCloneInfos)},
            GHORG_EXIT_CODE_ON_CLONE_ISSUES : {IntValue(DefaultExitCodeOnCloneIssues)},
            GHORG_DONT_EXIT_UNDER_TEST : {FALSE}] :
        e.GHORG_PRUNE_NO_CONFIRM => e.GHORG_PRUNE}

\* ------------------------------------------------- events, stats, filters
\* an entry of cloneInfos / cloneErrors: what happened, and to which repository
\* URL or target name
Event(kind, subject) == [kind |-> kind, subject |-> subject]

\* strings.TrimSuffix
strings_TrimSuffix(s, suffix) ==
    IF Len(suffix) <= Len(s) /\ SubSeq(s, Len(s) - Len(suffix) + 1, Len(s)) = suffix
    THEN SubSeq(s, 1, Len(s) - Len(suffix))
    ELSE s

\* filepath.Base of a path that does not end in "/"
filepath_Base(path) ==
    LET elems == strings_Split(path, "/")
    IN  IF path = <<>> THEN <<".">> ELSE elems[Len(elems)]

\* the name filterByTargetReposPath compares with the lines of the file
clonedRepoName(cloneTarget) ==
    strings_TrimSuffix(filepath_Base(cloneTarget.URL), <<".", "g", "i", "t">>)

\* filterByTargetReposPath: the clone targets named in the file, and one info
\* for every line of the file that named none of them (the map of lines is
\* filled while the clone targets are looked at)
filterByTargetReposPath(cloneTargets, toTarget) ==
    LET named(cloneTarget) ==
            \E n \in 1..Len(toTarget) : clonedRepoName(cloneTarget) = toTarget[n]
        seen(targetRepo) ==
            \E n \in 1..Len(cloneTargets) : clonedRepoName(cloneTargets[n]) = targetRepo
        notSeen(targetRepo) == cloneTargets # <<>> /\ ~seen(targetRepo)
        missed == SelectSeq(toTarget, notSeen)
    IN  [cloneTargets |-> SelectSeq(cloneTargets, named),
         cloneInfos   |-> [n \in 1..Len(missed) |-> Event("target not found", missed[n])]]

\* RepositoryFilter.ApplyAllFilters: of the filters only the target-repos list
\* is configured in the runs modelled
ApplyAllFilters(cloneTargets, env) ==
    IF env.GHORG_TARGET_REPOS_PATH = NoTargetReposFile
    THEN [cloneTargets |-> cloneTargets, cloneInfos |-> <<>>]
    ELSE filterByTargetReposPath(cloneTargets, env.GHORG_TARGET_REPOS_PATH)

\* the RunStats of a new RepositoryProcessor
NewRepositoryProcessor ==
    [CloneCount |-> 0, PulledCount |-> 0, SyncedCount |-> 0,
     CloneInfos |-> <<>>, CloneErrors |-> <<>>]

\* closures that all read one shared loop variable, left at its first value
Task_sharingLoopVariable(index, repoSlug, hostPath) ==
    [index |-> 1, repoSlug |-> repoSlug, HostPath |-> hostPath, running |-> TRUE,
     outcome |-> "running"]

\* a task of the pool: the index of its Repo in cloneTargets, the slug and
\* the destination it works on, whether it is still running, and how it ended
Task(index, repoSlug, hostPath) ==
    [index |-> index, repoSlug |-> repoSlug, HostPath |-> hostPath, running |-> TRUE,
     outcome |-> "running"]

\* NoExit: the process has not exited
NoExit == -1

RunStart(env, cloneTargets, disk) ==
    [pc |-> "Run", env |-> env, cloneTargets |-> cloneTargets, disk |-> disk,
     limit |-> 0, i |-> 1, tasks |-> <<>>, untouchedRepos |-> <<>>,
     removed |-> {}, repositories |-> <<>>, k |-> 1,
     userAgreesToDelete |-> TRUE, prompts |-> 0, count |-> 0, adjustMessages |-> 0, fatal |-> "",
     cloneInfos |-> <<>>, cloneErrors |-> <<>>, recorded |-> {},
     processor |-> NewRepositoryProcessor, stats |-> NewRepositoryProcessor,
     reported |-> [Info |-> <<>>, Issues |-> <<>>],
     cloneInfosCount |-> 0, cloneErrorsCount |-> 0, exitCode |-> NoExit]

InitRun ==
    /\ remote = [default |-> "main", tip |-> 1, renamed |-> FALSE]
    /\ loc = ClonedFrom(remote, "main")
    /\ last = NoCall(loc)
    /\ run \in {RunStart(e, t, d) : e \in Environments, t \in CloneTargetLists,
                                    d \in InitialDisks}

\* the tasks that limit.Execute started and that have not returned
InFlight(r) == {t \in 1..Len(r.tasks) : r.tasks[t].running}

Fatal(r, message) == [r EXCEPT !.pc = "fatal", !.fatal = message]

\* CloneCommand.Run: InitConfig has put the default into a GHORG_CONCURRENCY
\* that was not configured; a clone delay then turns a concurrency above 1 into 1
Run ==
    /\ run.pc = "Run"
    /\ LET configured == IF run.env.GHORG_CONCURRENCY.kind = "unset"
                         THEN [run.env EXCEPT !.GHORG_CONCURRENCY = IntValue(DefaultConcurrency)]
                         ELSE run.env
           adjusted   == IF shouldAutoAdjustConcurrency(configured)
                         THEN [configured EXCEPT !.GHORG_CONCURRENCY = IntValue(1),
                                                 !.GHORG_CONCURRENCY_AUTO_ADJUSTED = TRUE]
                         ELSE configured
       IN  run' = [run EXCEPT !.pc = "CloneAllRepos", !.env = adjusted]
    /\ UNCHANGED <<remote, loc, last>>

\* a pool that is not sized by GHORG_CONCURRENCY
limiterSize_ignoringConcurrency(env) == NewConcurrencyLimiter(DefaultConcurrency)

\* the size of the pool CloneAllRepos creates
limiterSize(env) == NewConcurrencyLimiter(strconv_Atoi(env.GHORG_CONCURRENCY).n)

\* the members of a list of events
Events(list) == {list[n] : n \in 1..Len(list)}

\* the values of GHORG_TARGET_REPOS_PATH a run is configured with: a target
\* list is not combined with pruning, which would remove every clone not listed
TargetReposPaths(env) ==
    IF env.GHORG_PRUNE \/ env.GHORG_PRUNE_UNTOUCHED
    THEN {NoTargetReposFile}
    ELSE {NoTargetReposFile, TargetReposFile}

\* CloneAllRepos up to the dispatch loop: the filters, the adjustment message,
\* the limiter, the processor
CloneAllRepos ==
    /\ run.pc = "CloneAllRepos"
    /\ \E targetReposPath \in TargetReposPaths(run.env) :
          LET env       == [run.env EXCEPT !.GHORG_TARGET_REPOS_PATH = targetReposPath]
              filtered  == ApplyAllFilters(run.cloneTargets, env)
              announced == env.GHORG_CONCURRENCY_AUTO_ADJUSTED
              printed   == announced /\ getCloneDelaySeconds(env).hasDelay
              r1 == [run EXCEPT !.env = [env EXCEPT !.GHORG_CONCURRENCY_AUTO_ADJUSTED = FALSE],
                                !.cloneTargets = filtered.cloneTargets,
                                !.cloneInfos = @ \o filtered.cloneInfos,
                                !.recorded = @ \cup Events(filtered.cloneInfos),
                                !.adjustMessages = IF printed THEN @ + 1 ELSE @]
          IN  run' = IF ~strconv_Atoi(env.GHORG_CONCURRENCY).ok
                     THEN Fatal(r1, "Could not determine GHORG_CONCURRENCY")
                     ELSE [r1 EXCEPT !.pc = "dispatch", !.limit = limiterSize(env),
                                     !.processor = NewRepositoryProcessor]
    /\ UNCHANGED <<remote, loc, last>>

\* the dispatch loop meets a slug that is no safe path segment: log.Fatal
UnsafePathSegment ==
    /\ run.pc = "dispatch"
    /\ run.i <= Len(run.cloneTargets)
    /\ ~isPathSegmentSafe(repoSlugOf(run.cloneTargets[run.i], run.env))
    /\ run' = Fatal(run, "Unsafe path segment found in SCM output")
    /\ UNCHANGED <<remote, loc, last>>

\* limit.Execute(func() {...}): blocks until a ticket is free, then starts the task
Execute ==
    /\ run.pc = "dispatch"
    /\ run.i <= Len(run.cloneTargets)
    /\ isPathSegmentSafe(repoSlugOf(run.cloneTargets[run.i], run.env))
    /\ Cardinality(InFlight(run)) < run.limit
    /\ LET repoSlug == taskRepoSlug(run.cloneTargets[run.i], run.env)
       IN  run' = [run EXCEPT
                      !.tasks = Append(@, Task(run.i, repoSlug,
                                               HostPathOf(outputDirAbsolutePath, repoSlug))),
                      !.i = @ + 1]
    /\ UNCHANGED <<remote, loc, last>>

\* something exists at path: a clone, a directory above one, or the clone-to directory
os_Stat(disk, path) ==
    \E p \in disk \cup {filepath_Clean(AbsolutePathToCloneTo)} : IsWithin(path, p)

\* the process has not ended: no log.Fatal, no unrecovered panic, no os.Exit
ProcessAlive(r) == r.pc \notin {"fatal", "crashed", "exited"}

\* the task t of r returns with this outcome
Finished(r, t, outcome) ==
    [r EXCEPT !.tasks[t].running = FALSE, !.tasks[t].outcome = outcome]

\* RepositoryProcessor.addError / addInfo, under the processor's mutex
addError(r, event) ==
    [r EXCEPT !.processor.CloneErrors = Append(@, event), !.recorded = @ \cup {event}]

addInfo(r, event) ==
    [r EXCEPT !.processor.CloneInfos = Append(@, event), !.recorded = @ \cup {event}]

\* the outcomes of a task that are failures of its repository
Failures == {"clone failed", "update failed", "panicked"}

\* processor.ProcessRepository in task t.
\*   no destination:   Clone; a failure is a clone error; a success counts in
\*                     CloneCount, and an empty repository adds an info
\*   not a clone:      the update fails, a clone error
\*   a clone:          the update fails (a clone error), or counts in
\*                     PulledCount; then the clone is recorded as untouched, or
\*                     SyncDefaultBranch returned true and counts in SyncedCount,
\*                     or neither
ProcessRepository ==
    /\ ProcessAlive(run)
    /\ \E t \in InFlight(run) :
          LET h    == run.tasks[t].HostPath
              repo == run.cloneTargets[run.tasks[t].index]
              cloned == [Finished(run, t, "cloned") EXCEPT
                            !.disk = @ \cup {h}, !.processor.CloneCount = @ + 1]
              pulled == [Finished(run, t, "pulled") EXCEPT !.processor.PulledCount = @ + 1]
          IN  \/ /\ ~os_Stat(run.disk, h)
                 /\ \/ run' = addError(Finished(run, t, "clone failed"),
                                       Event("clone failed", repo.URL))
                    \/ run' = cloned
                    \/ run' = addInfo(cloned, Event("empty repository", repo.URL))
              \/ /\ os_Stat(run.disk, h) /\ h \notin run.disk
                 /\ run' = addError(Finished(run, t, "update failed"),
                                    Event("update failed", repo.URL))
              \/ /\ h \in run.disk
                 /\ \/ run' = addError(Finished(run, t, "update failed"),
                                       Event("update failed", repo.URL))
                    \/ run' = pulled
                    \/ run' = [pulled EXCEPT !.untouchedRepos = Append(@, h)]
                    \/ /\ run.env.GHORG_SYNC_DEFAULT_BRANCH
                       /\ run' = [Finished(pulled, t, "synced") EXCEPT
                                     !.processor.SyncedCount = @ + 1]
    /\ UNCHANGED <<remote, loc, last>>

\* the function handed to limit.Execute panics in task t: nothing recovers in
\* the goroutine, and the Go runtime ends the process
TaskPanics ==
    /\ ProcessAlive(run)
    /\ \E t \in InFlight(run) :
          run' = [Finished(run, t, "panicked") EXCEPT !.pc = "crashed"]
    /\ UNCHANGED <<remote, loc, last>>

\* a wait that returns with a task still out
AllTasksReturned_butOne(r) == Cardinality(InFlight(r)) <= 1

\* every submitted task has returned
AllTasksReturned_notWaiting(r) == TRUE

AllTasksReturned(r) == InFlight(r) = {}

\* limit.WaitAndClose returns once every submitted task has returned; then
\* processor.GetStats is read
WaitAndClose ==
    /\ run.pc = "dispatch"
    /\ run.i > Len(run.cloneTargets)
    /\ AllTasksReturned(run)
    /\ run' = [run EXCEPT !.pc = "untouched", !.stats = run.processor]
    /\ UNCHANGED <<remote, loc, last>>

RECURSIVE RemoveEach(_, _)
\* the loop of os.RemoveAll over untouchedReposToPrune
RemoveEach(disk, paths) ==
    IF paths = <<>> THEN disk ELSE RemoveEach(os_RemoveAll(disk, Head(paths)), Tail(paths))

Removal(path, by) == [path |-> path, by |-> by]

\* what CloneAllRepos does with stats between the prune-untouched block and
\* pruneRepos: the global lists, printRemainingMessages, the two counts
reportStats(r) ==
    [r EXCEPT !.cloneInfos = r.stats.CloneInfos,
              !.cloneErrors = r.stats.CloneErrors,
              !.reported = [Info |-> r.stats.CloneInfos, Issues |-> r.stats.CloneErrors],
              !.cloneInfosCount = Len(r.stats.CloneInfos),
              !.cloneErrorsCount = Len(r.stats.CloneErrors)]

\* the prune-untouched block of CloneAllRepos (the confirmation is one Enter),
\* then the end-of-run report
PruneUntouched ==
    /\ run.pc = "untouched"
    /\ LET paths == run.untouchedRepos
           next  == IF run.env.GHORG_PRUNE THEN "pruneRepos" ELSE "done"
           r1    == reportStats(run)
       IN  run' = IF run.env.GHORG_PRUNE_UNTOUCHED /\ paths # <<>>
                  THEN [r1 EXCEPT !.pc = next,
                                  !.disk = RemoveEach(@, paths),
                                  !.removed = @ \cup {Removal(paths[n], "untouched") :
                                                         n \in 1..Len(paths)}]
                  ELSE [r1 EXCEPT !.pc = next]
    /\ UNCHANGED <<remote, loc, last>>

\* pruneRepos, before its loop: the candidates
pruneReposScan ==
    /\ run.pc = "pruneRepos"
    /\ run' = [run EXCEPT !.pc = "prune",
                          !.repositories = getRelativePathRepositories(outputDirAbsolutePath, run.disk),
                          !.k = 1, !.userAgreesToDelete = TRUE, !.count = 0]
    /\ UNCHANGED <<remote, loc, last>>

\* the candidate appended to the root without a separator
absolutePathToDelete_concatenated(root, repository) == root \o repository

\* the path pruneRepos deletes for a candidate
absolutePathToDelete(root, repository) == filepath_Join(root, repository)

\* strings.TrimSpace, for the spaces a terminal line carries
RECURSIVE strings_TrimSpace(_)
strings_TrimSpace(s) ==
    IF s = <<>> THEN s
    ELSE IF Head(s) \in {" ", "\n"} THEN strings_TrimSpace(Tail(s))
    ELSE IF s[Len(s)] \in {" ", "\n"} THEN strings_TrimSpace(SubSeq(s, 1, Len(s) - 1))
    ELSE s

\* strings.ToLower, for the letters of the answers below
strings_ToLower(s) ==
    [k \in 1..Len(s) |-> CASE s[k] = "Y" -> "y" [] s[k] = "E" -> "e"
                            [] s[k] = "S" -> "s" [] s[k] = "N" -> "n"
                            [] OTHER -> s[k]]

\* what the user may type at the prompt; a line that does not end in a
\* newline is the end of standard input
TypedLines ==
    { <<"y", "\n">>, <<"Y", "E", "S", "\n">>, <<" ", "y", "e", "s", " ", "\n">>,
      <<"n", "\n">>, <<"\n">>, <<"y", "e", "\n">>, <<"y">>, <<>> }

\* interactiveYesNoPrompt: reader.ReadString('\n') fails (and the function
\* panics) when the input ends before a newline; otherwise y and yes, in any
\* case and with spaces around, are true and every other line is false
interactiveYesNoPrompt(typed) ==
    LET s == strings_ToLower(strings_TrimSpace(typed))
    IN  IF typed = <<>> \/ typed[Len(typed)] # "\n"
        THEN [ok |-> FALSE, val |-> FALSE]
        ELSE [ok |-> TRUE, val |-> s = <<"y">> \/ s = <<"y", "e", "s">>]

\* a loop that goes on offering prunes after a prompt was declined
considersPruning_afterDecline(userAgreesToDelete, cloneTargets, repository) ==
    ~sliceContainsNamedRepo(cloneTargets, repository)

\* the condition under which pruneRepos considers pruning a candidate
considersPruning(userAgreesToDelete, cloneTargets, repository) ==
    userAgreesToDelete /\ ~sliceContainsNamedRepo(cloneTargets, repository)

\* one round of the loop of pruneRepos, with the line the user types at the
\* prompt (none is read with GHORG_PRUNE_NO_CONFIRM)
pruneReposStep ==
    /\ run.pc = "prune"
    /\ run.k <= Len(run.repositories)
    /\ \E typed \in TypedLines :
          LET repository == run.repositories[run.k]
              target     == absolutePathToDelete(outputDirAbsolutePath, repository)
              asked      == considersPruning(run.userAgreesToDelete, run.cloneTargets,
                                             repository)
              prompted   == asked /\ ~run.env.GHORG_PRUNE_NO_CONFIRM
              answer     == interactiveYesNoPrompt(typed)
              agrees     == run.env.GHORG_PRUNE_NO_CONFIRM \/ answer.val
              r1         == [run EXCEPT !.k = @ + 1,
                                        !.prompts = IF prompted THEN @ + 1 ELSE @]
          IN  run' = IF ~strings_HasPrefix(target, outputDirAbsolutePath)
                     THEN Fatal(run, "DANGEROUS ACTION DETECTED")
                     ELSE IF ~asked THEN r1
                     ELSE IF prompted /\ ~answer.ok
                     THEN [r1 EXCEPT !.pc = "crashed", !.k = run.k]
                     ELSE IF agrees
                     THEN [r1 EXCEPT !.userAgreesToDelete = TRUE,
                                     !.disk = os_RemoveAll(@, target),
                                     !.removed = @ \cup {Removal(target, "pruneRepos")},
                                     !.count = @ + 1]
                     ELSE [r1 EXCEPT !.userAgreesToDelete = FALSE]
    /\ UNCHANGED <<remote, loc, last>>

\* pruneRepos returns count
pruneReposReturn ==
    /\ run.pc = "prune"
    /\ run.k > Len(run.repositories)
    /\ run' = [run EXCEPT !.pc = "done"]
    /\ UNCHANGED <<remote, loc, last>>

\* the exit code CloneAllRepos ends the process with; returning to main is 0
exitCodeOf(env, cloneInfosCount, cloneErrorsCount) ==
    LET infos  == env.GHORG_EXIT_CODE_ON_CLONE_INFOS
        issues == env.GHORG_EXIT_CODE_ON_CLONE_ISSUES
    IN  IF ~env.GHORG_DONT_EXIT_UNDER_TEST /\ infos # IntValue(0) /\ cloneInfosCount > 0
        THEN IF strconv_Atoi(infos).ok THEN strconv_Atoi(infos).n ELSE 1
        ELSE IF ~env.GHORG_DONT_EXIT_UNDER_TEST /\ cloneErrorsCount > 0
        THEN IF strconv_Atoi(issues).ok THEN strconv_Atoi(issues).n ELSE 1
        ELSE 0

\* the end of CloneAllRepos: the exit policy
Exit ==
    /\ run.pc = "done"
    /\ \E infos \in {IntValue(DefaultExitCodeOnCloneInfos), IntValue(2)} :
          LET env == [run.env EXCEPT !.GHORG_EXIT_CODE_ON_CLONE_INFOS = infos]
          IN  run' = [run EXCEPT !.pc = "exited", !.env = env,
                                 !.exitCode = exitCodeOf(env, run.cloneInfosCount,
                                                         run.cloneErrorsCount)]
    /\ UNCHANGED <<remote, loc, last>>

NextRun ==
    \/ Run
    \/ CloneAllRepos
    \/ UnsafePathSegment
    \/ Execute
    \/ ProcessRepository
    \/ TaskPanics
    \/ WaitAndClose
    \/ PruneUntouched
    \/ pruneReposScan
    \/ pruneReposStep
    \/ pruneReposReturn
    \/ Exit

SpecRun == InitRun /\ [][NextRun]_vars

\* ------------------------------------------------ Part II: the claims
PrunedByPruneRepos == {r \in run.removed : r.by = "pruneRepos"}

\* C5: pruneRepos never removes a directory that is not under the clone root,
\* and when a candidate fails the containment check the run ends with
\* "DANGEROUS ACTION DETECTED" and that candidate is not removed.
C5_PruneReposStaysUnderRoot ==
    /\ \A r \in PrunedByPruneRepos : IsWithin(outputDirAbsolutePath, r.path)
    /\ run.fatal = "DANGEROUS ACTION DETECTED"
          => \A r \in PrunedByPruneRepos :
                r.path # absolutePathToDelete(outputDirAbsolutePath, run.repositories[run.k])

\* pruneRepos removed a clone under the root that no task of the run worked on
C5_Witness ==
    /\ run.pc = "prune"
    /\ run.count > 0
    /\ \E r \in PrunedByPruneRepos :
          /\ IsWithin(outputDirAbsolutePath, r.path)
          /\ \A t \in 1..Len(run.tasks) : run.tasks[t].HostPath # r.path

\* C6: no directory removed during a run, by the prune-untouched block or by
\* pruneRepos, lies outside the clone root.
C6_EveryRemovalStaysUnderRoot ==
    \A r \in run.removed : IsWithin(outputDirAbsolutePath, r.path)

\* C7: every task submitted to the pool has a destination that is not empty,
\* is absolute and lies under the clone root, in flat and in preserve-dir layout.
C7_SubmittedDestinationUnderRoot ==
    \A t \in 1..Len(run.tasks) :
        LET h == run.tasks[t].HostPath
        IN  h # <<>> /\ filepath_IsAbs(h) /\ IsWithin(outputDirAbsolutePath, h)

\* C8: pruneRepos never removes the directory a task of this run worked on.
\* (Stated for --prune-no-confirm, where no user agreed to the removal.)
C8_PruneKeepsThisRunsClones ==
    run.env.GHORG_PRUNE_NO_CONFIRM =>
        \A r \in PrunedByPruneRepos :
            \A t \in 1..Len(run.tasks) : run.tasks[t].HostPath # r.path

\* the pool is open: tasks are being submitted or awaited
PoolOpen == run.pc = "dispatch"

\* C9 as stated: never more than GHORG_CONCURRENCY tasks are running.
C9_AtMostConcurrencyInFlight ==
    PoolOpen => Cardinality(InFlight(run)) <= run.env.GHORG_CONCURRENCY.n

\* C9 amended: with a GHORG_CONCURRENCY of N >= 1 never more than N tasks are
\* running, so that a submission made while N are running has to wait.
C9_AtMostPositiveConcurrencyInFlight ==
    (PoolOpen /\ run.env.GHORG_CONCURRENCY.n >= 1)
        => Cardinality(InFlight(run)) <= run.env.GHORG_CONCURRENCY.n

\* N tasks are running and the next repository waits for a ticket
C9_Witness ==
    /\ PoolOpen
    /\ run.env.GHORG_CONCURRENCY.n >= 1
    /\ Cardinality(InFlight(run)) = run.env.GHORG_CONCURRENCY.n
    /\ run.i <= Len(run.cloneTargets)
    /\ isPathSegmentSafe(repoSlugOf(run.cloneTargets[run.i], run.env))

\* C10: with GHORG_CLONE_DELAY_SECONDS > 0 at most one task is running,
\* whatever GHORG_CONCURRENCY was configured or left unset.
C10_DelayMeansOneInFlight ==
    getCloneDelaySeconds(run.env).hasDelay => Cardinality(InFlight(run)) <= 1

\* the tasks of the run that ended with one of these outcomes
TasksEnded(outcomes) == {t \in 1..Len(run.tasks) : run.tasks[t].outcome \in outcomes}

\* C11: a task that failed, by a Git operation returning an error or by the
\* task function panicking, has a clone error for its repository in the
\* processor's CloneErrors, and the run goes on for the other repositories.
C11_FailureRecordedAndContained ==
    \A t \in TasksEnded(Failures) :
        /\ \E n \in 1..Len(run.processor.CloneErrors) :
              run.processor.CloneErrors[n].subject
                  = run.cloneTargets[run.tasks[t].index].URL
        /\ run.pc # "crashed"

\* waitAndClose has returned and processor.GetStats has been read
StatsPublished == run.pc \in {"untouched", "pruneRepos", "prune", "done", "exited"}

C13_ErrorsExitWithIssuesCode ==
    (run.pc = "exited" /\ run.stats.CloneErrors # <<>>)
        => run.exitCode = run.env.GHORG_EXIT_CODE_ON_CLONE_ISSUES.n

\* the end-of-run report has been printed and the counts taken
Reported == run.pc \in {"pruneRepos", "prune", "done", "exited"}

\* C14: every info or error recorded during the run, the "target not found"
\* infos of the target-repos filter included, is in the final lists: the
\* report shows it, and the two counts add up to the number of events.
\* (Stated for a run that kept and processed at least one repository.)
C14_NoRecordedEventIsDropped ==
    (Reported /\ run.tasks # <<>>) =>
        /\ \A e \in run.recorded :
              e \in Events(run.reported.Info) \cup Events(run.reported.Issues)
        /\ run.cloneInfosCount + run.cloneErrorsCount = Cardinality(run.recorded)
\* pruneRepos has returned its count
PruneReturned == run.env.GHORG_PRUNE /\ run.pc \in {"done", "exited"}

\* the local clone directories under the clone root (relative to it, as the
\* scan of pruneRepos found them) that match no kept Repo.Path, a leading
\* slash and the kind of separator ignored
UnmatchedClones ==
    {n \in 1..Len(run.repositories) :
        \A k \in 1..Len(run.cloneTargets) :
            NormalisePath(run.cloneTargets[k].Path) # NormalisePath(run.repositories[n])}

\* C20: the count pruneRepos returns equals the number of local clone
\* directories under the clone root that match no kept Repo.Path.
C20_PruneCountIsUnmatchedClones ==
    PruneReturned => run.count = Cardinality(UnmatchedClones)

\* C20, amended: the same, when no prune that was offered was declined
\* (with GHORG_PRUNE_NO_CONFIRM none is offered); each counted directory
\* is gone from the disk.
C20_ConfirmedPruneCountIsUnmatchedClones ==
    (PruneReturned /\ run.userAgreesToDelete)
        => /\ run.count = Cardinality(UnmatchedClones)
           /\ \A n \in UnmatchedClones :
                  filepath_Join(outputDirAbsolutePath, run.repositories[n]) \notin run.disk

\* a confirmed prune that removed one clone and kept one whose Repo.Path
\* differs from the directory by a leading slash
C20_Witness ==
    /\ PruneReturned /\ run.userAgreesToDelete
    /\ run.count = 1
    /\ \E n \in 1..Len(run.repositories) :
          /\ n \notin UnmatchedClones
          /\ \E k \in 1..Len(run.cloneTargets) :
                run.cloneTargets[k].Path # run.repositories[n]
                /\ NormalisePath(run.cloneTargets[k].Path) = run.repositories[n]

\* C30: in a run with GHORG_CLONE_DELAY_SECONDS > 0 (and a GHORG_CONCURRENCY
\* that is an integer) CloneCommand.Run prints nothing about the adjustment,
\* and once CloneAllRepos has begun the concurrency is 1, the info line has
\* been printed exactly once and the marker that asks for it is cleared.
C30_DelayAdjustmentAnnouncedOnce ==
    (getCloneDelaySeconds(run.env).hasDelay /\ strconv_Atoi(run.env.GHORG_CONCURRENCY).ok)
        => /\ run.pc = "CloneAllRepos" => run.adjustMessages = 0
           /\ run.pc \notin {"Run", "CloneAllRepos"}
                 => /\ run.env.GHORG_CONCURRENCY = IntValue(1)
                    /\ run.adjustMessages = 1
                    /\ ~run.env.GHORG_CONCURRENCY_AUTO_ADJUSTED

\* pruneRepos is in or past its loop and a prompt has been declined
PruneDeclined ==
    /\ run.pc \in {"prune", "done", "exited"}
    /\ run.env.GHORG_PRUNE /\ ~run.env.GHORG_PRUNE_NO_CONFIRM
    /\ ~run.userAgreesToDelete

\* C21: in interactive prune mode, once a prompt was answered with anything
\* but yes, the rest of the run deletes no directory and prompts for no
\* further candidate; what was deleted before stays deleted.
C21_DeclineStopsPruning ==
    [][PruneDeclined => /\ run'.disk = run.disk
                        /\ run'.removed = run.removed
                        /\ run'.count = run.count
                        /\ run'.prompts = run.prompts
                        /\ ~run'.userAgreesToDelete]_vars

\* one candidate was approved and removed, the next prompt was declined, and
\* the loop then passed a third candidate that is still on the disk
C21_Witness ==
    /\ PruneDeclined
    /\ run.pc = "done"
    /\ run.count = 1 /\ run.prompts = 2
    /\ Cardinality(UnmatchedClones) = 3
    /\ \E n \in UnmatchedClones :
          filepath_Join(outputDirAbsolutePath, run.repositories[n]) \in run.disk

\* C25: a step that deletes for prune or prune-untouched, reads the run
\* statistics or decides the exit code is taken only when every task
\* submitted in the run has completed, and none is running after it.
C25_NoTaskRunsDuringReconciliation ==
    [][(\/ run'.removed # run.removed
        \/ run'.pc = "untouched" /\ run.pc # "untouched"
        \/ run'.reported # run.reported
        \/ run'.exitCode # run.exitCode)
          => /\ InFlight(run) = {}
             /\ InFlight(run') = {}
             /\ Len(run.tasks) = Len(run.cloneTargets)]_vars

\* a run of two tasks that pruned and has decided its exit code
C25_Witness ==
    /\ run.pc = "exited"
    /\ Len(run.tasks) = 2
    /\ run.removed # {}
    /\ run.exitCode # NoExit

\* C26: every task works on its own Repo, slug and index, no two tasks on
\* the same Repo, and a task ends once; when the pool has been waited for,
\* every kept Repo has been processed by exactly one task.
C26_OneTaskPerKeptRepo ==
    [][/\ \A t \in 1..Len(run'.tasks) :
             /\ run'.tasks[t].index = t
             /\ run'.tasks[t].repoSlug = taskRepoSlug(run'.cloneTargets[t], run'.env)
             /\ run'.tasks[t].HostPath
                    = HostPathOf(outputDirAbsolutePath, run'.tasks[t].repoSlug)
       /\ \A t \in 1..Len(run.tasks) :
             run.tasks[t].outcome # "running" => run'.tasks[t] = run.tasks[t]
       /\ StatsPublished' =>
             /\ Len(run'.tasks) = Len(run'.cloneTargets)
             /\ \A t \in 1..Len(run'.tasks) : run'.tasks[t].outcome # "running"]_vars

\* two tasks ran at the same time on different Repos and both have ended
C26_Witness ==
    /\ StatsPublished
    /\ Len(run.tasks) = 2
    /\ run.limit >= 2
    /\ run.tasks[1].repoSlug # run.tasks[2].repoSlug
    /\ \A t \in 1..2 : run.tasks[t].outcome \notin {"running", "panicked"}


\* =============================================================== Part III
\* ------------------------------------------------ path planning (SpecPlan)
\* The destinations CloneAllRepos and the processor plan for the kept Repos:
\* hasRepoNameCollisions, the slug, isPathSegmentSafe, the collision suffix and
\* trimCollisionFilename.  run.pc is "hasRepoNameCollisions", then "plan" while
\* the Repos are taken in order, then "planned"; "fatal" and "crashed" end it.

\* maxLen of trimCollisionFilename
maxLen == 248

\* strings.LastIndex for a one-character substring: counted from 0, -1 when absent
strings_LastIndex(s, c) ==
    IF \A k \in 1..Len(s) : s[k] # c THEN -1
    ELSE (CHOOSE k \in 1..Len(s) : s[k] = c /\ \A j \in (k + 1)..Len(s) : s[j] # c) - 1

\* trimCollisionFilename: filename[:strings.LastIndex(filename[:maxLen], "_")]
\* for a name longer than maxLen; a slice bound of -1 panics
trimCollisionFilename(filename) ==
    IF Len(filename) > maxLen
    THEN LET cut == strings_LastIndex(SubSeq(filename, 1, maxLen), "_")
         IN  IF cut < 0 THEN [ok |-> FALSE, val |-> <<>>]
             ELSE [ok |-> TRUE, val |-> SubSeq(filename, 1, cut)]
    ELSE [ok |-> TRUE, val |-> filename]

\* scm.Repo with the two flags hasRepoNameCollisions reads
PlanRepo(name, path, url, wiki) ==
    Repo(name, path, url, FALSE) @@ [IsGitLabSnippet |-> FALSE, IsWiki |-> wiki]

RECURSIVE collisionScan(_, _)
\* the loop of hasRepoNameCollisions: a name met before is marked true.  The
\* map is held as the set of its keys and the set of its keys mapped to true.
collisionScan(repos, map) ==
    IF repos = <<>> THEN map
    ELSE LET repo == Head(repos)
         IN  IF repo.IsGitLabSnippet \/ repo.IsWiki
             THEN collisionScan(Tail(repos), map)
             ELSE IF repo.Name \in map.keys
             THEN collisionScan(Tail(repos), [map EXCEPT !.collided = @ \cup {repo.Name}])
             ELSE collisionScan(Tail(repos), [map EXCEPT !.keys = @ \cup {repo.Name}])

\* hasRepoNameCollisions: (repoNameWithCollisions, hasCollisions)
hasRepoNameCollisions(repos, env) ==
    LET none == [keys |-> {}, collided |-> {}]
        map  == collisionScan(repos, none)
    IN  IF env.GHORG_GITLAB_TOKEN = <<>>
        THEN [repoNameWithCollisions |-> none, hasCollisions |-> FALSE]
        ELSE IF env.GHORG_PRESERVE_DIRECTORY_STRUCTURE
        THEN [repoNameWithCollisions |-> none, hasCollisions |-> FALSE]
        ELSE [repoNameWithCollisions |-> map, hasCollisions |-> map.collided # {}]

\* the namespace of a Repo: its Path without the last element, "_" for "/"
namespaceOf(repo) ==
    LET elems == strings_Split(strings_TrimPrefix(repo.Path, <<"/">>), "/")
    IN  strings_Join(SubSeq(elems, 1, Len(elems) - 1), "_")

\* the processor's collision resolution: a non-snippet, non-wiki Repo whose
\* Name collided gets the namespace appended, cut to the platform-safe length
collisionSlug(repo, repoSlug, collisions) ==
    IF /\ collisions.hasCollisions
       /\ ~repo.IsGitLabSnippet /\ ~repo.IsWiki
       /\ repo.Name \in collisions.repoNameWithCollisions.collided
    THEN trimCollisionFilename(repoSlug \o <<"_">> \o namespaceOf(repo))
    ELSE [ok |-> TRUE, val |-> repoSlug]

\* a group path of n characters
LongGroup(n) == [k \in 1..n |-> "g"]

\* what the SCM client may hand over: two projects named a in different
\* groups, another project, two projects named a below one long group, a wiki
PlanPool ==
    << PlanRepo(<<"a">>, <<"g", "/", "a">>, <<"u", "/", "g", "/", "a", ".", "g", "i", "t">>, FALSE),
       PlanRepo(<<"a">>, <<"h", "/", "a">>, <<"u", "/", "h", "/", "a", ".", "g", "i", "t">>, FALSE),
       PlanRepo(<<"b">>, <<"g", "/", "b">>, <<"u", "/", "g", "/", "b", ".", "g", "i", "t">>, FALSE),
       PlanRepo(<<"a">>, LongGroup(maxLen - 2) \o <<"/", "h", "/", "a">>,
                <<"u", "/", "g", "/", "h", "/", "a", ".", "g", "i", "t">>, FALSE),
       PlanRepo(<<"a">>, LongGroup(maxLen - 2) \o <<"/", "i", "/", "a">>,
                <<"u", "/", "g", "/", "i", "/", "a", ".", "g", "i", "t">>, FALSE),
       PlanRepo(<<"b", ".", "w", "i", "k", "i">>, <<"g", "/", "b", ".", "w", "i", "k", "i">>,
                <<"u", "/", "g", "/", "b", ".", "w", "i", "k", "i", ".", "g", "i", "t">>, TRUE) >>

RECURSIVE PlanPicked(_, _)
PlanPicked(picks, from) ==
    IF from > Len(PlanPool) THEN <<>>
    ELSE (IF from \in picks THEN <<PlanPool[from]>> ELSE <<>>) \o PlanPicked(picks, from + 1)

PlanTargetLists ==
    {PlanPicked(picks, 1) : picks \in {ps \in SUBSET (1..Len(PlanPool)) :
                                           Cardinality(ps) \in 1..(MaxRepos + 1)}}

\* GitLab with its token, or another provider without a GitLab token
PlanEnvironments ==
    {e \in [GHORG_SCM_TYPE : {"gitlab", "github"},
            GHORG_GITLAB_TOKEN : {<<>>, <<"t">>},
            GHORG_PRESERVE_DIRECTORY_STRUCTURE : BOOLEAN] :
        (e.GHORG_SCM_TYPE = "gitlab") <=> (e.GHORG_GITLAB_TOKEN # <<>>)}

PlanStart(env, cloneTargets) ==
    [pc |-> "hasRepoNameCollisions", env |-> env, cloneTargets |-> cloneTargets,
     collisions |-> hasRepoNameCollisions(<<>>, env), i |-> 1, planned |-> <<>>,
     fatal |-> ""]

InitPlan ==
    /\ remote = [default |-> "main", tip |-> 1, renamed |-> FALSE]
    /\ loc = ClonedFrom(remote, "main")
    /\ last = NoCall(loc)
    /\ run \in {PlanStart(e, t) : e \in PlanEnvironments, t \in PlanTargetLists}

\* CloneAllRepos: check for duplicate names
PlanCollisions ==
    /\ run.pc = "hasRepoNameCollisions"
    /\ run' = [run EXCEPT !.pc = "plan",
                          !.collisions = hasRepoNameCollisions(run.cloneTargets, run.env)]
    /\ UNCHANGED <<remote, loc, last>>

\* the next Repo of the loop: its slug, the safety check, the slug of the
\* task, the collision resolution, the destination
PlanNext ==
    /\ run.pc = "plan"
    /\ run.i <= Len(run.cloneTargets)
    /\ LET repo     == run.cloneTargets[run.i]
           repoSlug == collisionSlug(repo, taskRepoSlug(repo, run.env), run.collisions)
       IN  run' = IF ~isPathSegmentSafe(repoSlugOf(repo, run.env))
                  THEN Fatal(run, "Unsafe path segment found in SCM output")
                  ELSE IF ~repoSlug.ok
                  THEN [run EXCEPT !.pc = "crashed"]
                  ELSE [run EXCEPT !.i = @ + 1,
                                   !.planned = Append(@, HostPathOf(outputDirAbsolutePath,
                                                                    repoSlug.val))]
    /\ UNCHANGED <<remote, loc, last>>

\* every Repo has its destination
PlanDone ==
    /\ run.pc = "plan"
    /\ run.i > Len(run.cloneTargets)
    /\ run' = [run EXCEPT !.pc = "planned"]
    /\ UNCHANGED <<remote, loc, last>>

NextPlan ==
    \/ PlanCollisions
    \/ PlanNext
    \/ PlanDone

SpecPlan == InitPlan /\ [][NextPlan]_vars

\* C15: after path planning no two kept Repos have the same destination.
C15_DestinationsAreDistinct ==
    run.pc = "planned" =>
        \A m \in 1..Len(run.planned), n \in 1..Len(run.planned) :
            m # n => run.planned[m] # run.planned[n]

\* ================================================================ Part IV
\* --------------------------------------------- the reconciler's scan: SpecWalk
\* What a directory has under the name .git: a directory (a clone), a regular
\* file (the pointer of a submodule or of a linked worktree), or nothing.
GitChildKinds == {"dir", "file", "none"}

\* the directories of the tree that is scanned: the clone root, entries
\* directly under it, a namespace directory with an entry in it, and a
\* directory inside another entry
WalkDirs ==
    { outputDirAbsolutePath,
      filepath_Join(outputDirAbsolutePath, <<"a">>),
      filepath_Join(outputDirAbsolutePath, <<"a", "/", "s">>),
      filepath_Join(outputDirAbsolutePath, <<"b">>),
      filepath_Join(outputDirAbsolutePath, <<"g">>),
      filepath_Join(outputDirAbsolutePath, <<"g", "/", "a">>) }

\* a check that takes any child named .git
isGitRepository_anyChild(tree, path) ==
    path \in DOMAIN tree /\ tree[path] # "none"

\* isGitRepository: os.Stat(path/.git) succeeds and stat.IsDir()
isGitRepository(tree, path) ==
    path \in DOMAIN tree /\ tree[path] = "dir"

WalkStart(tree) == [pc |-> "scan", tree |-> tree, repositories |-> <<>>]

InitWalk ==
    /\ remote = [default |-> "main", tip |-> 1, renamed |-> FALSE]
    /\ loc = ClonedFrom(remote, "main")
    /\ last = NoCall(loc)
    /\ run \in {WalkStart(tree) : tree \in [WalkDirs -> GitChildKinds]}

\* getRelativePathRepositories(outputDirAbsolutePath): WalkDir over the tree,
\* keeping every directory but the root for which isGitRepository holds
WalkScan ==
    /\ run.pc = "scan"
    /\ run' = [run EXCEPT
                  !.pc = "scanned",
                  !.repositories =
                      getRelativePathRepositories(
                          outputDirAbsolutePath,
                          {path \in DOMAIN run.tree : isGitRepository(run.tree, path)})]
    /\ UNCHANGED <<remote, loc, last>>

NextWalk == WalkScan

SpecWalk == InitWalk /\ [][NextWalk]_vars

\* the directories under the clone root that the scan returned
Scanned ==
    {path \in DOMAIN run.tree \ {outputDirAbsolutePath} :
        \E n \in 1..Len(run.repositories) :
            run.repositories[n] = filepath_Rel(outputDirAbsolutePath, path)}

\* C27: the scan takes a directory under the clone root as a clone if and
\* only if it has a child named .git, be it a directory or a regular file.
C27_GitChildOfAnyKindMakesAClone ==
    run.pc = "scanned" =>
        \A path \in DOMAIN run.tree \ {outputDirAbsolutePath} :
            path \in Scanned <=> run.tree[path] \in {"dir", "file"}

\* C27, amended: if and only if its child named .git is a directory; each
\* is returned once, and the clone root itself never.
C27_GitDirectoryMakesAClone ==
    run.pc = "scanned" =>
        /\ \A path \in DOMAIN run.tree \ {outputDirAbsolutePath} :
               path \in Scanned <=> run.tree[path] = "dir"
        /\ Len(run.repositories) = Cardinality(Scanned)
        /\ \A n \in 1..Len(run.repositories) : run.repositories[n] # <<".">>

\* a scan of a root that is itself a clone, holding a clone that has a
\* directory with a .git file in it, and an entry without .git
C27_Witness ==
    /\ run.pc = "scanned"
    /\ run.tree[outputDirAbsolutePath] = "dir"
    /\ run.tree[filepath_Join(outputDirAbsolutePath, <<"a">>)] = "dir"
    /\ run.tree[filepath_Join(outputDirAbsolutePath, <<"a", "/", "s">>)] = "file"
    /\ run.tree[filepath_Join(outputDirAbsolutePath, <<"b">>)] = "none"
    /\ run.repositories = << <<"a">> >>

\* ================================================================= Part V
\* ------------------------------------------------- the stats file: SpecStats
\* the runs of the engine that write their statistics to one clone-to directory
MaxRuns == 3

\* A file is its lines; a line is its text, or for the row of a run the
\* values in it that differ between the runs modelled.
Line(text, date, cloneErrorsCount, pruneCount) ==
    [text |-> text, date |-> date, cloneErrorsCount |-> cloneErrorsCount,
     pruneCount |-> pruneCount]

\* the header line writeGhorgStats writes, and the header line of a file that
\* an earlier version of the engine left behind
header == Line("datetime,...,totalDurationSeconds,ghorgVersion", 0, 0, 0)

oldHeader == Line("datetime,...,ghorgVersion", 0, 0, 0)

\* the row of one run
Row(date, cloneErrorsCount, pruneCount) == Line("", date, cloneErrorsCount, pruneCount)

NoFile == [exists |-> FALSE, lines |-> <<>>]

File(lines) == [exists |-> TRUE, lines |-> lines]

\* what is at _ghorg_stats.csv before the first run: nothing, an empty file,
\* a file of this version, or a file of an earlier version
StatsFilesFound ==
    { NoFile, File(<<>>), File(<<header>>), File(<<oldHeader>>),
      File(<<oldHeader, Row(0, 0, 0)>>) }

\* readFirstLine: the first line without its newline, "" for an empty file
readFirstLine(file) == IF file.lines = <<>> THEN Line("", 0, 0, 0) ELSE file.lines[1]

\* os.OpenFile(O_APPEND|O_CREATE|O_WRONLY) followed by WriteString of each line
AppendLines(file, lines) == File(file.lines \o lines)

StatsStart(found) ==
    [pc |-> "stats", runs |-> 0,
     files |-> [main |-> found, side |-> NoFile],
     appended |-> [main |-> 0, side |-> 0]]

InitStats ==
    /\ remote = [default |-> "main", tip |-> 1, renamed |-> FALSE]
    /\ loc = ClonedFrom(remote, "main")
    /\ last = NoCall(loc)
    /\ run \in {StatsStart(found) : found \in StatsFilesFound}

\* writeGhorgStats at the end of one run.  Without a stats file: create it,
\* header, row.  With one whose first line is the header: row.  With any
\* other: open the side file named after the header's hash, header, row.
writeGhorgStats ==
    /\ run.pc = "stats"
    /\ run.runs < MaxRuns
    /\ \E cloneErrorsCount \in 0..1, pruneCount \in 0..1 :
          LET data == Row(run.runs + 1, cloneErrorsCount, pruneCount)
              main == run.files.main
              to   == IF main.exists /\ readFirstLine(main) # header
                      THEN "side" ELSE "main"
              wrote == IF ~main.exists THEN <<header, data>>
                       ELSE IF readFirstLine(main) # header THEN <<header, data>>
                       ELSE <<data>>
          IN  run' = [run EXCEPT !.runs = @ + 1,
                                 !.files[to] = AppendLines(@, wrote),
                                 !.appended[to] = @ + 1]
    /\ UNCHANGED <<remote, loc, last>>

NextStats == writeGhorgStats

SpecStats == InitStats /\ [][NextStats]_vars

\* the positions of the header in a file
HeaderLines(file) == {n \in 1..Len(file.lines) : file.lines[n] = header}

\* C22: every stats file the engine has written to, the main file or the
\* side file, has the header exactly once, as its first line, followed by
\* exactly one row per run appended to it.
C22_HeaderOnceThenOneRowPerRun ==
    \A f \in {"main", "side"} :
        run.appended[f] > 0 =>
            /\ HeaderLines(run.files[f]) = {1}
            /\ Len(run.files[f].lines) = 1 + run.appended[f]

\* ================================================================ Part VI
\* --------------------------------------------- the reclone server: SpecServer
\* the requests to /trigger/reclone that one server receives
MaxRequests == 3

\* a mutex that lets everybody in
TryLock_notExclusive(mu) == [ok |-> TRUE, mu |-> TRUE]

\* sync.Mutex.TryLock: locks and reports true if the mutex was free
TryLock(mu) == [ok |-> ~mu, mu |-> TRUE]

\* A request to /trigger/reclone.  handler is where its handler stands:
\*   "TryLock", "go" (lock held, goroutine not yet started), "<-started",
\*   "returned";  status is the response, 0 while there is none;  cmd is
\*   where its goroutine stands: "none", "close(started)", "cmd.Run" (the
\*   ghorg reclone process is in flight), "mu.Unlock" (cmd.Run has returned),
\*   "returned";  sawRunning records whether a triggered process was in
\*   flight when the handler called TryLock
Request ==
    [handler |-> "TryLock", status |-> 0, cmd |-> "none", sawRunning |-> FALSE]

\* the requests whose ghorg reclone process is in flight
Reclones(r) == {q \in 1..Len(r.requests) : r.requests[q].cmd = "cmd.Run"}

ServerStart == [pc |-> "ListenAndServe", mu |-> FALSE, requests |-> <<>>]

InitServer ==
    /\ remote = [default |-> "main", tip |-> 1, renamed |-> FALSE]
    /\ loc = ClonedFrom(remote, "main")
    /\ last = NoCall(loc)
    /\ run = ServerStart

\* a request arrives; net/http runs its handler in a goroutine of its own
HandleFunc ==
    /\ Len(run.requests) < MaxRequests
    /\ run' = [run EXCEPT !.requests = Append(@, Request)]
    /\ UNCHANGED <<remote, loc, last>>

\* the handler: mu.TryLock(), and 429 when it fails
HandlerTryLock ==
    /\ \E q \in 1..Len(run.requests) :
          /\ run.requests[q].handler = "TryLock"
          /\ LET locked == TryLock(run.mu)
                 saw    == Reclones(run) # {}
             IN  run' = IF locked.ok
                        THEN [run EXCEPT !.mu = locked.mu,
                                         !.requests[q].handler = "go",
                                         !.requests[q].sawRunning = saw]
                        ELSE [run EXCEPT !.requests[q].handler = "returned",
                                         !.requests[q].status = 429,
                                         !.requests[q].sawRunning = saw]
    /\ UNCHANGED <<remote, loc, last>>

\* the handler: go func() {...}(), then it waits on <-started
HandlerGo ==
    /\ \E q \in 1..Len(run.requests) :
          /\ run.requests[q].handler = "go"
          /\ run' = [run EXCEPT !.requests[q].handler = "<-started",
                                !.requests[q].cmd = "close(started)"]
    /\ UNCHANGED <<remote, loc, last>>

\* the goroutine: close(started), then cmd.Run() starts the process
GoCloseStarted ==
    /\ \E q \in 1..Len(run.requests) :
          /\ run.requests[q].cmd = "close(started)"
          /\ run' = [run EXCEPT !.requests[q].cmd = "cmd.Run"]
    /\ UNCHANGED <<remote, loc, last>>

\* the handler: started is closed, w.WriteHeader(200)
HandlerRespond ==
    /\ \E q \in 1..Len(run.requests) :
          /\ run.requests[q].handler = "<-started"
          /\ run.requests[q].cmd \notin {"none", "close(started)"}
          /\ run' = [run EXCEPT !.requests[q].handler = "returned",
                                !.requests[q].status = 200]
    /\ UNCHANGED <<remote, loc, last>>

\* the goroutine: cmd.Run() returns, the process has ended or did not start
CmdRunReturns ==
    /\ \E q \in 1..Len(run.requests) :
          /\ run.requests[q].cmd = "cmd.Run"
          /\ run' = [run EXCEPT !.requests[q].cmd = "mu.Unlock"]
    /\ UNCHANGED <<remote, loc, last>>

\* the goroutine: the deferred mu.Unlock()
GoUnlock ==
    /\ \E q \in 1..Len(run.requests) :
          /\ run.requests[q].cmd = "mu.Unlock"
          /\ run' = [run EXCEPT !.mu = FALSE, !.requests[q].cmd = "returned"]
    /\ UNCHANGED <<remote, loc, last>>

NextServer ==
    \/ HandleFunc
    \/ HandlerTryLock
    \/ HandlerGo
    \/ GoCloseStarted
    \/ HandlerRespond
    \/ CmdRunReturns
    \/ GoUnlock

SpecServer == InitServer /\ [][NextServer]_vars

\* C23: at most one triggered reclone process is in flight, and a request
\* whose handler found one in flight is answered 429 and starts no process.
C23_OneRecloneInFlight ==
    /\ Cardinality(Reclones(run)) <= 1
    /\ \A q \in 1..Len(run.requests) :
          /\ run.requests[q].sawRunning
                => run.requests[q].status = 429 /\ run.requests[q].cmd = "none"
          /\ run.requests[q].status = 429 => run.requests[q].cmd = "none"
          /\ run.requests[q].status = 200 => run.requests[q].cmd # "none"

\* a request was refused while another request's reclone was in flight, and
\* a third, after that reclone had ended, started a reclone of its own
C23_Witness ==
    /\ Len(run.requests) = 3
    /\ \E p, q, r \in 1..3 :
          /\ run.requests[p].cmd = "returned" /\ run.requests[p].status = 200
          /\ run.requests[q].sawRunning /\ run.requests[q].status = 429
          /\ run.requests[r].cmd = "cmd.Run"

\* =============================================================== Part VII
\* ------------------------------------------------- the reclone cron: SpecCron
\* the times the ticker fires in one behaviour
MaxTicks == 4

\* a loop that never looks at recloneRunning
tickSkipped_never(r) == FALSE

\* if recloneRunning { recloneMutex.Unlock(); continue }
tickSkipped(r) == r.recloneRunning

\* A tick of the ticker.  cmd is what became of it: "ticker.C" (waiting in
\* the channel), "dropped" (the channel was full), "Lock" (received by the
\* loop), "skipped", "cmd.Start", "failed" (Start returned an error, flag not
\* yet cleared), "cmd.Wait" (the child runs), "exited" (Wait has returned,
\* flag not yet cleared), "cleared";  sawRunning records whether a child was
\* running when the loop looked at recloneRunning for this tick
Tick == [cmd |-> "ticker.C", sawRunning |-> FALSE]

\* the ticks whose ghorg reclone child is running
CronChildren(r) == {t \in 1..Len(r.ticks) : r.ticks[t].cmd = "cmd.Wait"}

\* the ticks standing at one of the positions in where
TicksAt(r, where) == {t \in 1..Len(r.ticks) : r.ticks[t].cmd \in where}

CronStart == [pc |-> "ticker", recloneRunning |-> FALSE, ticks |-> <<>>]

InitCron ==
    /\ remote = [default |-> "main", tip |-> 1, renamed |-> FALSE]
    /\ loc = ClonedFrom(remote, "main")
    /\ last = NoCall(loc)
    /\ run = CronStart

\* the ticker fires: ticker.C holds one tick, and a tick that finds it full
\* is dropped
TickerFires ==
    /\ Len(run.ticks) < MaxTicks
    /\ run' = [run EXCEPT !.ticks =
                  Append(@, IF TicksAt(run, {"ticker.C"}) = {}
                            THEN Tick
                            ELSE [Tick EXCEPT !.cmd = "dropped"])]
    /\ UNCHANGED <<remote, loc, last>>

\* for range ticker.C: the loop, between two iterations, receives a tick
LoopReceives ==
    /\ TicksAt(run, {"Lock", "cmd.Start", "failed"}) = {}
    /\ \E t \in TicksAt(run, {"ticker.C"}) :
          run' = [run EXCEPT !.ticks[t].cmd = "Lock"]
    /\ UNCHANGED <<remote, loc, last>>

\* the loop, under recloneMutex: skip the tick or set recloneRunning
LoopChecks ==
    /\ \E t \in TicksAt(run, {"Lock"}) :
          LET saw == CronChildren(run) # {}
          IN  run' = IF tickSkipped(run)
                     THEN [run EXCEPT !.ticks[t].cmd = "skipped",
                                      !.ticks[t].sawRunning = saw]
                     ELSE [run EXCEPT !.recloneRunning = TRUE,
                                      !.ticks[t].cmd = "cmd.Start",
                                      !.ticks[t].sawRunning = saw]
    /\ UNCHANGED <<remote, loc, last>>

\* cmd.Start(): the child starts and a goroutine waits for it, or it fails
CmdStart ==
    /\ \E t \in TicksAt(run, {"cmd.Start"}) :
          \E started \in BOOLEAN :
              run' = [run EXCEPT !.ticks[t].cmd =
                                    IF started THEN "cmd.Wait" ELSE "failed"]
    /\ UNCHANGED <<remote, loc, last>>

\* the loop, after a failed Start and under recloneMutex: clear the flag
LoopClears ==
    /\ \E t \in TicksAt(run, {"failed"}) :
          run' = [run EXCEPT !.recloneRunning = FALSE,
                             !.ticks[t].cmd = "cleared"]
    /\ UNCHANGED <<remote, loc, last>>

\* the goroutine: cmd.Wait() returns, the child has ended
CmdWaitReturns ==
    /\ \E t \in TicksAt(run, {"cmd.Wait"}) :
          run' = [run EXCEPT !.ticks[t].cmd = "exited"]
    /\ UNCHANGED <<remote, loc, last>>

\* the goroutine, under recloneMutex: clear the flag
WaiterClears ==
    /\ \E t \in TicksAt(run, {"exited"}) :
          run' = [run EXCEPT !.recloneRunning = FALSE,
                             !.ticks[t].cmd = "cleared"]
    /\ UNCHANGED <<remote, loc, last>>

NextCron ==
    \/ TickerFires
    \/ LoopReceives
    \/ LoopChecks
    \/ CmdStart
    \/ LoopClears
    \/ CmdWaitReturns
    \/ WaiterClears

SpecCron == InitCron /\ [][NextCron]_vars

\* C24: at most one ghorg reclone child started by the cron is running, and
\* a tick that the loop handles while a child is running starts nothing.
C24_OneCronChild ==
    /\ Cardinality(CronChildren(run)) <= 1
    /\ Cardinality(TicksAt(run, {"cmd.Start", "failed", "cmd.Wait", "exited"})) <= 1
    /\ \A t \in 1..Len(run.ticks) :
          run.ticks[t].sawRunning => run.ticks[t].cmd = "skipped"

\* a child ran and ended, a tick was skipped while it ran, a later start
\* failed, and the tick after that has a child running
C24_Witness ==
    \E a, b, c, d \in 1..Len(run.ticks) :
        /\ a < b /\ b < c /\ c < d
        /\ run.ticks[a].cmd = "cleared" /\ ~run.ticks[a].sawRunning
        /\ run.ticks[b].cmd = "skipped" /\ run.ticks[b].sawRunning
        /\ run.ticks[c].cmd = "cleared"
        /\ run.ticks[d].cmd = "cmd.Wait"

\* ============================================================== Part VIII
\* ---------------------------------- paginated enumeration (GitLab): SpecPages
\* the largest totalPages of an enumeration
MaxPages == 4

Digits == <<"0", "1", "2", "3", "4", "5", "6", "7", "8", "9">>

RECURSIVE strconv_FormatInt(_)
\* strconv.FormatInt(n, 10) of a number that is not negative
strconv_FormatInt(n) ==
    IF n < 10 THEN <<Digits[n + 1]>>
    ELSE strconv_FormatInt(n \div 10) \o <<Digits[(n % 10) + 1]>>

\* the ids of the groups the server may return for a page, in the order sent
PageAnswers(page) == {<<10 * page>>, <<10 * page + 1, 10 * page>>}

\* for _, g := range groups { allGroups = append(allGroups, FormatInt(g.ID)) }
appendGroups(allGroups, groups) ==
    allGroups \o [k \in 1..Len(groups) |-> strconv_FormatInt(groups[k])]

\* results kept in the order they were received
collect_byArrival(pageResults, result) ==
    [q \in DOMAIN pageResults \cup {Cardinality(DOMAIN pageResults) + 2} |->
        IF q \in DOMAIN pageResults THEN pageResults[q] ELSE result.groups]

\* pageResults[result.page] = result.groups
collect(pageResults, result) ==
    [q \in DOMAIN pageResults \cup {result.page} |->
        IF q = result.page THEN result.groups ELSE pageResults[q]]

RECURSIVE appendInPageOrder(_, _, _, _)
\* for page := 2; page <= totalPages; page++ { if groups, ok := ... }
appendInPageOrder(allGroups, pageResults, page, totalPages) ==
    IF page > totalPages THEN allGroups
    ELSE appendInPageOrder(
             IF page \in DOMAIN pageResults
             THEN appendGroups(allGroups, pageResults[page]) ELSE allGroups,
             pageResults, page + 1, totalPages)

\* The call after its go statements: every page from 2 on has a goroutine at
\* "ListGroups"; resultChan has room for all of them; received lists the
\* pages in the order their results were taken from resultChan
PagesStart(firstPageGroups, totalPages) ==
    [pc          |-> "range resultChan",
     totalPages  |-> totalPages,
     first       |-> firstPageGroups,
     allGroups   |-> appendGroups(<<>>, firstPageGroups),
     fetch       |-> [page \in 2..totalPages |->
                         [pc |-> "ListGroups", groups |-> <<>>, err |-> FALSE]],
     resultChan  |-> <<>>,
     closed      |-> FALSE,
     pageResults |-> <<>>,
     received    |-> <<>>,
     err         |-> FALSE]

InitPages ==
    /\ remote = [default |-> "main", tip |-> 1, renamed |-> FALSE]
    /\ loc = ClonedFrom(remote, "main")
    /\ last = NoCall(loc)
    /\ \E totalPages \in 2..MaxPages, firstPageGroups \in PageAnswers(1) :
          run = PagesStart(firstPageGroups, totalPages)

\* a goroutine: ListGroups answers, the result goes to resultChan, wg.Done()
ListGroups ==
    /\ \E page \in DOMAIN run.fetch :
          /\ run.fetch[page].pc = "ListGroups"
          /\ \E groups \in PageAnswers(page), err \in BOOLEAN :
                LET got == IF err THEN <<>> ELSE groups
                IN  run' = [run EXCEPT
                        !.fetch[page] = [pc |-> "done", groups |-> got, err |-> err],
                        !.resultChan = Append(@,
                            [groups |-> got, err |-> err, page |-> page])]
    /\ UNCHANGED <<remote, loc, last>>

\* go func() { wg.Wait(); close(resultChan) }()
CloseResultChan ==
    /\ ~run.closed
    /\ \A page \in DOMAIN run.fetch : run.fetch[page].pc = "done"
    /\ run' = [run EXCEPT !.closed = TRUE]
    /\ UNCHANGED <<remote, loc, last>>

\* for result := range resultChan: one result is received
CollectResult ==
    /\ run.pc = "range resultChan"
    /\ run.resultChan # <<>>
    /\ LET result == Head(run.resultChan)
       IN  run' = IF result.err
                  THEN [run EXCEPT !.pc = "returned", !.err = TRUE,
                                   !.allGroups = <<>>,
                                   !.resultChan = Tail(@)]
                  ELSE [run EXCEPT !.resultChan = Tail(@),
                                   !.received = Append(@, result.page),
                                   !.pageResults = collect(@, result)]
    /\ UNCHANGED <<remote, loc, last>>

\* resultChan is closed and drained: append in page order and return
ReturnAllGroups ==
    /\ run.pc = "range resultChan"
    /\ run.resultChan = <<>>
    /\ run.closed
    /\ run' = [run EXCEPT
                  !.pc = "returned",
                  !.allGroups = appendInPageOrder(@, run.pageResults, 2,
                                                  run.totalPages)]
    /\ UNCHANGED <<remote, loc, last>>

NextPages ==
    \/ ListGroups
    \/ CloseResultChan
    \/ CollectResult
    \/ ReturnAllGroups

SpecPages == InitPages /\ [][NextPages]_vars

RECURSIVE PagesInOrder(_, _)
\* what the server sent for pages page..totalPages, page after page
PagesInOrder(r, page) ==
    IF page > r.totalPages THEN <<>>
    ELSE [k \in 1..Len(r.fetch[page].groups) |->
              strconv_FormatInt(r.fetch[page].groups[k])]
         \o PagesInOrder(r, page + 1)

\* C29: a successful enumeration returns the items of page 1 and then those
\* of pages 2..N in increasing page order, each page as it was received.
C29_PagesInPageOrder ==
    (run.pc = "returned" /\ ~run.err)
        => run.allGroups =
             [k \in 1..Len(run.first) |-> strconv_FormatInt(run.first[k])]
             \o PagesInOrder(run, 2)

\* a successful enumeration of four pages whose page 4 was received before
\* page 3 and page 3 before page 2
C29_Witness ==
    /\ run.pc = "returned" /\ ~run.err
    /\ run.received = <<4, 3, 2>>
    /\ run.allGroups = <<<<"1", "1">>, <<"1", "0">>, <<"2", "0">>,
                         <<"3", "1">>, <<"3", "0">>, <<"4", "0">>>>

=============================================================================
